---- MODULE Spec2Model ----
(***************************************************************************)
(* Mixture matrix engine of MoziThermoDB (class MoziMatrixData and the     *)
(* utilities it calls).  Strings are sequences of one-character strings,   *)
(* so that split, trim, toLowerCase, startsWith and Number are computed    *)
(* the way the JavaScript source computes them.                            *)
(***************************************************************************)
EXTENDS Integers, Sequences, FiniteSets, TLC

VARIABLES data, pc, matrixData, mixtureKeys, mixturePropertyMatrices, last, modelSource,
          rawThermoRecord, params

vars == <<data, pc, matrixData, mixtureKeys, mixturePropertyMatrices, last, modelSource, rawThermoRecord, params>>

(***************************************************************************)
(* Bounds of the model.                                                    *)
(***************************************************************************)
\* number of coefficient columns (p_i_j_1 .. p_i_j_NumCols) of a row group
NumCols == 2
\* numeric placeholders tried by ij range over 0 .. MaxPlaceholder
MaxPlaceholder == 3

\* the longest record passed to cleanRawThermoRecord on its own
MaxRows == 3

(***************************************************************************)
(* JavaScript string primitives.                                           *)
(***************************************************************************)
UpperChars == <<"A","B","C","D","E","F","G","H","I","J","K","L","M",
                "N","O","P","Q","R","S","T","U","V","W","X","Y","Z">>

LowerChars == <<"a","b","c","d","e","f","g","h","i","j","k","l","m",
                "n","o","p","q","r","s","t","u","v","w","x","y","z">>

DigitChars == <<"0","1","2","3","4","5","6","7","8","9">>

lowerChar(c) ==
    IF \E k \in 1..Len(UpperChars) : UpperChars[k] = c
    THEN LowerChars[CHOOSE k \in 1..Len(UpperChars) : UpperChars[k] = c]
    ELSE c

\* String.prototype.toLowerCase
toLowerCase(s) == [k \in 1..Len(s) |-> lowerChar(s[k])]

\* String.prototype.indexOf, 1-based; 0 when sub does not occur
indexOf(s, sub) ==
    LET hits == {k \in 1..(Len(s) - Len(sub) + 1) :
                    SubSeq(s, k, k + Len(sub) - 1) = sub}
    IN  IF hits = {} THEN 0 ELSE CHOOSE k \in hits : \A h \in hits : k <= h

\* String.prototype.includes
includes(s, sub) == indexOf(s, sub) # 0

\* String.prototype.startsWith
startsWith(s, p) == Len(p) <= Len(s) /\ SubSeq(s, 1, Len(p)) = p

\* String.prototype.slice(n), n counted in characters
sliceFrom(s, n) == SubSeq(s, n + 1, Len(s))

RECURSIVE split(_, _)
\* String.prototype.split on a non-empty separator
split(s, d) ==
    LET k == indexOf(s, d)
    IN  IF k = 0 THEN <<s>>
        ELSE <<SubSeq(s, 1, k - 1)>> \o split(SubSeq(s, k + Len(d), Len(s)), d)

RECURSIVE trimStart(_)
trimStart(s) == IF s # <<>> /\ Head(s) = " " THEN trimStart(Tail(s)) ELSE s

RECURSIVE trimEnd(_)
trimEnd(s) ==
    IF s # <<>> /\ s[Len(s)] = " " THEN trimEnd(SubSeq(s, 1, Len(s) - 1)) ELSE s

\* String.prototype.trim
trim(s) == trimEnd(trimStart(s))

RECURSIVE join(_, _)
\* Array.prototype.join
join(parts, d) ==
    IF parts = <<>> THEN <<>>
    ELSE IF Len(parts) = 1 THEN parts[1]
    ELSE parts[1] \o d \o join(Tail(parts), d)

isDigit(c) == \E k \in 1..Len(DigitChars) : DigitChars[k] = c

digitValue(c) == (CHOOSE k \in 1..Len(DigitChars) : DigitChars[k] = c) - 1

RECURSIVE digitsValue(_)
digitsValue(s) ==
    IF s = <<>> THEN 0
    ELSE digitsValue(SubSeq(s, 1, Len(s) - 1)) * Len(DigitChars) + digitValue(s[Len(s)])

NaN == [nan |-> TRUE, inf |-> FALSE, n |-> 0]

Num(n) == [nan |-> FALSE, inf |-> FALSE, n |-> n]

\* the number Infinity
PositiveInfinity == [nan |-> FALSE, inf |-> TRUE, n |-> 0]

sInfinity == <<"I","n","f","i","n","i","t","y">>

\* Number(string): blank is 0, an unsigned decimal numeral is its value,
\* "Infinity" is Infinity, anything else is NaN
NumberOfString(s) ==
    LET t == trim(s)
    IN  IF t = <<>> THEN Num(0)
        ELSE IF \A k \in 1..Len(t) : isDigit(t[k]) THEN Num(digitsValue(t))
        ELSE IF t = sInfinity THEN PositiveInfinity
        ELSE NaN

RECURSIVE numToString(_)
\* String(number) for a natural number
numToString(n) ==
    IF n < Len(DigitChars) THEN <<DigitChars[n + 1]>>
    ELSE numToString(n \div Len(DigitChars)) \o <<DigitChars[(n % Len(DigitChars)) + 1]>>

(***************************************************************************)
(* Raw records.  A value is a string or a number.                          *)
(***************************************************************************)
StrV(s) == [t |-> "str", s |-> s, n |-> 0, inf |-> FALSE]

NumV(n) == [t |-> "num", s |-> <<>>, n |-> n, inf |-> FALSE]

\* the value Infinity of a row
InfV == [t |-> "num", s |-> <<>>, n |-> 0, inf |-> TRUE]

\* String(value)
StringOf(v) == IF v.t = "str" THEN v.s ELSE IF v.inf THEN sInfinity ELSE numToString(v.n)

Row(name, symbol, value, unit) ==
    [name |-> name, symbol |-> symbol, value |-> value, unit |-> unit]

\* record.find(r => r.name.toLowerCase() === lname): index of the row, 0 if none
findRowByName(record, lname) ==
    LET hits == {k \in 1..Len(record) : toLowerCase(record[k].name) = lname}
    IN  IF hits = {} THEN 0 ELSE CHOOSE k \in hits : \A h \in hits : k <= h

\* Array.prototype.includes
inSeq(x, s) == \E k \in 1..Len(s) : s[k] = x

RECURSIVE uniqueSeq(_)
\* Array.from(new Set(xs)): first occurrences, in order
uniqueSeq(xs) ==
    IF xs = <<>> THEN <<>>
    ELSE LET init == uniqueSeq(SubSeq(xs, 1, Len(xs) - 1))
             x == xs[Len(xs)]
         IN  IF inSeq(x, init) THEN init ELSE Append(init, x)

(***************************************************************************)
(* Components and component ids.                                           *)
(***************************************************************************)
Component(name, formula, state) ==
    [name |-> name, formula |-> formula, state |-> state]

ComponentKeys == <<"Name", "Formula", "Name-Formula">>

\* set_component_id(component, key) of mozithermodb-settings: the fields named
\* by the dash-separated parts of the key, joined by "-"
set_component_id(component, key) ==
    CASE key = "Name" -> component.name
      [] key = "Formula" -> component.formula
      [] key = "Name-State" -> component.name \o <<"-">> \o component.state
      [] OTHER -> component.name \o <<"-">> \o component.formula

\* generateMixtureId: [id1, id2].join(delimiter); an undefined id joins as ""
generateMixtureId(componentId_1, componentId_2, delimiter) ==
    join(<<componentId_1, componentId_2>>, delimiter)

\* generateMixtureIds: the two orderings under one key
generateMixtureIds(components, mixtureKey, delimiter) ==
    LET \* componentIds[k - 1]; undefined past the end of the list
        idAt(k) == IF k \in 1..Len(components)
                   THEN set_component_id(components[k], mixtureKey) ELSE <<>>
        both(id1, id2) ==
            <<generateMixtureId(id1, id2, delimiter), generateMixtureId(id2, id1, delimiter)>>
    IN  both(idAt(1), idAt(2))

\* generateMixtureKey: the ids of both orders under every key, without
\* duplicates; set_component_id does not throw for a component with a name
\* and a formula, so the list is never empty
RECURSIVE generateMixtureKeyFrom(_, _, _, _)
generateMixtureKeyFrom(components, keys, mixtureDelimiter, n) ==
    IF n > Len(keys) THEN <<>>
    ELSE generateMixtureIds(components, keys[n], mixtureDelimiter)
         \o generateMixtureKeyFrom(components, keys, mixtureDelimiter, n + 1)

generateMixtureKey(components, keys, mixtureDelimiter) ==
    uniqueSeq(generateMixtureKeyFrom(components, keys, mixtureDelimiter, 1))

\* findMixtureComponent's predicate without the lower-casing of line 58
componentIdMatches_exact(id, componentId) == id = componentId

\* the comparison of findMixtureComponent's predicate
componentIdMatches(id, componentId) == toLowerCase(id) = toLowerCase(componentId)

\* components.find(...) under one key: index of the first match, 0 if none
findComponentUnderKey(componentId, components, key) ==
    LET hits == {k \in 1..Len(components) :
                    componentIdMatches(set_component_id(components[k], key), componentId)}
    IN  IF hits = {} THEN 0 ELSE CHOOSE k \in hits : \A h \in hits : k <= h

RECURSIVE findMixtureComponentFrom(_, _, _, _)
findMixtureComponentFrom(componentId, components, componentKey, n) ==
    IF n > Len(componentKey) THEN 0
    ELSE LET k == findComponentUnderKey(componentId, components, componentKey[n])
         IN  IF k # 0 THEN k
             ELSE findMixtureComponentFrom(componentId, components, componentKey, n + 1)

\* findMixtureComponent: index (1-based) of the component found, 0 for null
findMixtureComponent(componentId, components, componentKey) ==
    findMixtureComponentFrom(componentId, components, componentKey, 1)

\* mixtureId.split(delimiter).map(id => id.trim().toLowerCase())
labelTokensLower(mixtureId, mixtureDelimiter) ==
    LET parts == split(mixtureId, mixtureDelimiter)
    IN  [k \in 1..Len(parts) |-> toLowerCase(trim(parts[k]))]

\* findMixtureKey(mixtureId, component, keys, delimiter): first key under which
\* the component's id is a token of the label; throws when there is none
findMixtureKey(mixtureId, component, keys, mixtureDelimiter) ==
    LET componentIds == labelTokensLower(mixtureId, mixtureDelimiter)
        hits == {n \in 1..Len(keys) :
                    inSeq(toLowerCase(set_component_id(component, keys[n])), componentIds)}
    IN  IF hits = {} THEN [err |-> TRUE, key |-> "null"]
        ELSE [err |-> FALSE, key |-> keys[CHOOSE n \in hits : \A h \in hits : n <= h]]

\* findMixtureKeyFromComponents: first key under which the ids of components[0]
\* and components[1] are both tokens of the label; set_component_id of a missing
\* components[1] is a TypeError
findMixtureKeyFromComponents(mixtureId, components, keys, mixtureDelimiter) ==
    LET componentIds == labelTokensLower(mixtureId, mixtureDelimiter)
        hits == {n \in 1..Len(keys) :
                    /\ inSeq(toLowerCase(set_component_id(components[1], keys[n])), componentIds)
                    /\ inSeq(toLowerCase(set_component_id(components[2], keys[n])), componentIds)}
    IN  IF Len(components) < 2 THEN [err |-> TRUE, key |-> "null"]
        ELSE IF hits = {} THEN [err |-> TRUE, key |-> "null"]
        ELSE [err |-> FALSE, key |-> keys[CHOOSE n \in hits : \A h \in hits : n <= h]]

(***************************************************************************)
(* db-tools: cleaning and property prefixes.                               *)
(***************************************************************************)
IgnoreNames == {<<"N","a","m","e">>, <<"F","o","r","m","u","l","a">>,
                <<"S","t","a","t","e">>, <<"C","A","S">>,
                <<"I","n","C","h","I">>, <<"S","M","I","L","E","S">>}

RECURSIVE cleanRawThermoRecord(_)
\* cleanRawThermoRecord: identity rows dropped, string values coerced with
\* Number, rows whose value is NaN dropped
cleanRawThermoRecord(record) ==
    IF record = <<>> THEN <<>>
    ELSE LET r == Head(record)
             value == IF r.value.t = "str" THEN NumberOfString(r.value.s)
                      ELSE IF r.value.inf THEN PositiveInfinity ELSE Num(r.value.n)
             kept == IF r.name \in IgnoreNames \/ value.nan THEN <<>>
                     ELSE <<[r EXCEPT !.value = IF value.inf THEN InfV ELSE NumV(value.n)]>>
         IN  kept \o cleanRawThermoRecord(Tail(record))

RECURSIVE getMixtureProps_all(_, _)
\* getMixtureProps without the uniqueBySymbol.has test: one entry per row
getMixtureProps_all(record, propIdentifier) ==
    IF record = <<>> THEN <<>>
    ELSE LET r == record[Len(record)]
         IN  getMixtureProps_all(SubSeq(record, 1, Len(record) - 1), propIdentifier)
             \o (IF includes(r.symbol, propIdentifier)
                 THEN <<[symbol |-> split(r.symbol, propIdentifier)[1], unit |-> r.unit]>>
                 ELSE <<>>)

RECURSIVE getMixtureProps(_, _)
\* getMixtureProps: prefixes (text before propIdentifier) of the rows whose
\* symbol contains propIdentifier, first occurrence of each prefix kept
getMixtureProps(record, propIdentifier) ==
    IF record = <<>> THEN <<>>
    ELSE LET init == getMixtureProps(SubSeq(record, 1, Len(record) - 1), propIdentifier)
             r == record[Len(record)]
             prefix == split(r.symbol, propIdentifier)[1]
         IN  IF ~includes(r.symbol, propIdentifier) THEN init
             ELSE IF \E k \in 1..Len(init) : init[k].symbol = prefix THEN init
             ELSE Append(init, [symbol |-> prefix, unit |-> r.unit])

(***************************************************************************)
(* propertyParser.                                                         *)
(***************************************************************************)
PropertyDelimiters == << <<"|">>, <<"_">> >>

\* delimiters.find(pred) answering with the last delimiter of the list in the
\* set instead of the first
firstDelimiter_last(delimiters, ok) ==
    IF \A k \in 1..Len(delimiters) : delimiters[k] \notin ok THEN <<>>
    ELSE delimiters[CHOOSE k \in 1..Len(delimiters) :
                        /\ delimiters[k] \in ok
                        /\ \A h \in (k + 1)..Len(delimiters) : delimiters[h] \notin ok]

\* delimiters.find(pred): the first delimiter of the list in the set, <<>> if none
firstDelimiter(delimiters, ok) ==
    IF \A k \in 1..Len(delimiters) : delimiters[k] \notin ok THEN <<>>
    ELSE delimiters[CHOOSE k \in 1..Len(delimiters) :
                        /\ delimiters[k] \in ok
                        /\ \A h \in 1..(k - 1) : delimiters[h] \notin ok]

\* parts[k] || "" after trimming every part
partOrEmpty(parts, k) == IF k <= Len(parts) THEN trim(parts[k]) ELSE <<>>

\* the mode computed without the test that both placeholders are non-empty
placeholderMode_unguarded(i, j) ==
    IF ~NumberOfString(i).nan /\ ~NumberOfString(j).nan
    THEN "numeric" ELSE "component"

\* the mode of a parsed reference
placeholderMode(i, j) ==
    IF i # <<>> /\ j # <<>> /\ ~NumberOfString(i).nan /\ ~NumberOfString(j).nan
    THEN "numeric" ELSE "component"

propertyParser(propertySymbol, propertyDelimiters) ==
    LET delimiters == propertyDelimiters
        result(prefix, delimiter, i, j) ==
            [propertyPrefix |-> prefix, propertyDelimiter |-> delimiter,
             i |-> i, j |-> j, mode |-> placeholderMode(i, j)]
        \* prefix, i and j are the first three parts
        direct(parts, mainDelimiter) ==
            result(partOrEmpty(parts, 1), mainDelimiter, partOrEmpty(parts, 2),
                   partOrEmpty(parts, 3))
        branch(parts, mainDelimiter, nestedDelimiter) ==
            IF nestedDelimiter # <<>>
            THEN direct(split(partOrEmpty(parts, 1), nestedDelimiter), mainDelimiter)
            ELSE IF delimiters[1] = mainDelimiter /\ Len(delimiters) > 1
            THEN result(partOrEmpty(parts, 1), mainDelimiter, <<>>, <<>>)
            ELSE direct(parts, mainDelimiter)
        nested(parts, mainDelimiter) ==
            branch(parts, mainDelimiter,
                   firstDelimiter(delimiters,
                       {d \in {delimiters[k] : k \in 1..Len(delimiters)} :
                           d # mainDelimiter /\ includes(partOrEmpty(parts, 1), d)}))
        main(trimmed, mainDelimiter) ==
            IF mainDelimiter = <<>> THEN result(trimmed, <<>>, <<>>, <<>>)
            ELSE nested(split(trimmed, mainDelimiter), mainDelimiter)
        parse(trimmed) ==
            main(trimmed,
                 firstDelimiter(delimiters,
                     {d \in {delimiters[k] : k \in 1..Len(delimiters)} : includes(trimmed, d)}))
    IN  parse(trim(propertySymbol))

\* generateMixturePropertyKey
generateMixturePropertyKey(property, i, j, componentKey, propertyDelimiter) ==
    property \o propertyDelimiter \o set_component_id(i, componentKey)
             \o propertyDelimiter \o set_component_id(j, componentKey)

(***************************************************************************)
(* MoziMatrixData: construction.                                           *)
(***************************************************************************)
mixtureDelimiter == <<"|">>

propIdentifier == <<"_","i","_","j">>

sMixture == <<"m","i","x","t","u","r","e">>

sName == <<"n","a","m","e">>

sFormula == <<"f","o","r","m","u","l","a">>

sState == <<"s","t","a","t","e">>

RECURSIVE mixtureNamesOf(_)
mixtureNamesOf(raw) ==
    IF raw = <<>> THEN <<>>
    ELSE LET k == findRowByName(Head(raw), sMixture)
         IN  (IF k = 0 THEN <<>> ELSE <<StringOf(Head(raw)[k].value)>>)
             \o mixtureNamesOf(Tail(raw))

\* getMixtureNames: the labels of the row groups, duplicates removed
getMixtureNames(raw) == uniqueSeq(mixtureNamesOf(raw))

\* the entry normalizeMixture seeds for a label
seedEntry(mixture) ==
    LET parts == split(mixture, mixtureDelimiter)
        mixtureComponentIds == [k \in 1..Len(parts) |-> trim(parts[k])]
        id1 == mixtureComponentIds[1]
        id2 == IF Len(mixtureComponentIds) >= 2 THEN mixtureComponentIds[2] ELSE <<>>
    IN  [mixtureKey |-> "null",
         mixtureIds |-> <<generateMixtureId(id1, id2, mixtureDelimiter),
                          generateMixtureId(id2, id1, mixtureDelimiter)>>,
         mixtureComponentIds |-> mixtureComponentIds,
         components |-> <<>>,
         records |-> <<>>,
         props |-> <<>>]

\* obj[key] = value on a function used as a JavaScript object
put(obj, key, value) ==
    [x \in (DOMAIN obj) \cup {key} |-> IF x = key THEN value ELSE obj[x]]

\* normalizeMixture without the early return for a group that has no Mixture row
groupIsSkipped_never(mixtureIdx) == FALSE

\* if (!mixtureNameRecord) return
groupIsSkipped(mixtureIdx) == mixtureIdx = 0

\* if (!componentNameRecord || !componentFormulaRecord || !componentStateRecord)
identityMissing(nameIdx, formulaIdx, stateIdx) ==
    nameIdx = 0 \/ formulaIdx = 0 \/ stateIdx = 0

\* String(row.value) of the row at index k; "" for index 0, where there is no row
valueAt(record, k) == IF k = 0 THEN <<>> ELSE StringOf(record[k].value)

\* one iteration of rawThermoRecord.forEach in normalizeMixture
normalizeGroup(res, record) ==
    LET store(label, component, mixtureKey_) ==
            IF mixtureKey_.err \/ label \notin DOMAIN res THEN [err |-> TRUE, res |-> res]
            ELSE [err |-> FALSE,
                  res |-> [res EXCEPT ![label] =
                             [@ EXCEPT
                                !.components = Append(@, component),
                                !.records = put(@, set_component_id(component, mixtureKey_.key),
                                                cleanRawThermoRecord(record)),
                                !.props = getMixtureProps(record, propIdentifier)]]]
        identified(label, component) ==
            store(label, component,
                  findMixtureKey(label, component, ComponentKeys, mixtureDelimiter))
        found(mixtureIdx, nameIdx, formulaIdx, stateIdx) ==
            IF groupIsSkipped(mixtureIdx) THEN [err |-> FALSE, res |-> res]
            ELSE IF identityMissing(nameIdx, formulaIdx, stateIdx) THEN [err |-> TRUE, res |-> res]
            ELSE identified(valueAt(record, mixtureIdx),
                            Component(valueAt(record, nameIdx), valueAt(record, formulaIdx),
                                      valueAt(record, stateIdx)))
    IN  found(findRowByName(record, sMixture), findRowByName(record, sName),
              findRowByName(record, sFormula), findRowByName(record, sState))

RECURSIVE normalizeGroups(_, _)
normalizeGroups(res, raw) ==
    LET rest(step) == IF step.err THEN step ELSE normalizeGroups(step.res, Tail(raw))
    IN  IF raw = <<>> THEN [err |-> FALSE, res |-> res]
        ELSE rest(normalizeGroup(res, Head(raw)))

\* normalizeMixture: seed one entry per label, scan the row groups, then
\* resolve every entry's mixtureKey
normalizeMixture(raw) ==
    LET resolve(seeded, scanned, keyOf) ==
            IF \E m \in DOMAIN keyOf : keyOf[m].err THEN [err |-> TRUE, res |-> seeded]
            ELSE [err |-> FALSE,
                  res |-> [m \in DOMAIN keyOf |-> [scanned[m] EXCEPT !.mixtureKey = keyOf[m].key]]]
        keys(seeded, scanned) ==
            IF scanned.err THEN [err |-> TRUE, res |-> seeded]
            ELSE resolve(seeded, scanned.res,
                         [m \in DOMAIN seeded |->
                             findMixtureKeyFromComponents(m, scanned.res[m].components,
                                                          ComponentKeys, mixtureDelimiter)])
        scan(seeded) == keys(seeded, normalizeGroups(seeded, raw))
        seed(mixtureNames) ==
            scan([m \in {mixtureNames[k] : k \in 1..Len(mixtureNames)} |-> seedEntry(m)])
    IN  seed(getMixtureNames(raw))

\* Array.prototype.indexOf on the component ids, 1-based
firstIndexOf(xs, x) == CHOOSE k \in 1..Len(xs) : xs[k] = x /\ \A h \in 1..Len(xs) : xs[h] = x => k <= h

\* getComponentIndex storing the position of the component in `components`
\* (res[componentIds[componentIndex]] = componentIndex)
rowIndexFor_declared(componentIndex, index) == componentIndex

\* the row index getComponentIndex stores for a label token: the position of
\* the token in the label
rowIndexFor(componentIndex, index) == index

\* res[key] = value on an insertion-ordered object kept as a sequence of pairs
putOrdered(obj, key, value) ==
    IF \E k \in 1..Len(obj) : obj[k].key = key
    THEN [k \in 1..Len(obj) |-> IF obj[k].key = key THEN [key |-> key, value |-> value] ELSE obj[k]]
    ELSE Append(obj, [key |-> key, value |-> value])

RECURSIVE componentIndexFrom(_, _, _, _)
\* mixtureComponentIds.forEach((id, index) => ...) of getComponentIndex, from
\* the n-th token on; row indices are 0-based
componentIndexFrom(entry, componentIds, n, res) ==
    IF n > Len(entry.mixtureComponentIds) THEN [err |-> FALSE, res |-> res]
    ELSE LET id == toLowerCase(entry.mixtureComponentIds[n])
             matches(k) ==
                 LET first == firstIndexOf(componentIds, componentIds[k])
                 IN  \/ toLowerCase(componentIds[k]) = id
                     \/ toLowerCase(entry.components[first].name) = id
                     \/ toLowerCase(entry.components[first].formula) = id
             hits == {k \in 1..Len(componentIds) : matches(k)}
             componentIndex == CHOOSE k \in hits : \A h \in hits : k <= h
         IN  IF hits = {} THEN [err |-> TRUE, res |-> res]
             ELSE componentIndexFrom(entry, componentIds, n + 1,
                     putOrdered(res, componentIds[componentIndex],
                                rowIndexFor(componentIndex - 1, n - 1)))

\* getComponentIndex: component id (under the mixture key) -> row index
getComponentIndex(md, mixtureName) ==
    LET entry == md[mixtureName]
        componentIds == [k \in 1..Len(entry.components) |->
                            set_component_id(entry.components[k], entry.mixtureKey)]
    IN  componentIndexFrom(entry, componentIds, 1, <<>>)

\* the comparator (a, b) => a.colIndex - b.colIndex as Array.prototype.sort
\* reads it: a NaN difference counts as 0
compareColIndex(a, b) == IF a.nan \/ b.nan THEN 0 ELSE a.n - b.n

RECURSIVE insertSorted(_, _)
\* stable insertion of x into the sorted sequence xs
insertSorted(xs, x) ==
    IF xs = <<>> THEN <<x>>
    ELSE IF compareColIndex(x.colIndex, xs[Len(xs)].colIndex) < 0
         THEN Append(insertSorted(SubSeq(xs, 1, Len(xs) - 1), x), xs[Len(xs)])
         ELSE Append(xs, x)

RECURSIVE sortByColIndex(_)
\* Array.prototype.sort (stable) with compareColIndex
sortByColIndex(xs) ==
    IF xs = <<>> THEN <<>>
    ELSE insertSorted(sortByColIndex(SubSeq(xs, 1, Len(xs) - 1)), xs[Len(xs)])

RECURSIVE propRecordsOf(_, _)
\* componentRawRecords.filter(r => r.symbol.startsWith(propPrefix)) mapped to
\* { value, colIndex: Number(suffix) }
propRecordsOf(rows, propPrefix) ==
    IF rows = <<>> THEN <<>>
    ELSE LET r == Head(rows)
         IN  (IF startsWith(r.symbol, propPrefix)
              THEN <<[value |-> r.value.n,
                      colIndex |-> NumberOfString(sliceFrom(r.symbol, Len(propPrefix)))]>>
              ELSE <<>>) \o propRecordsOf(Tail(rows), propPrefix)

\* the row of one component: its values for the property, sorted
propValuesOf(rows, propPrefix) ==
    LET sorted == sortByColIndex(propRecordsOf(rows, propPrefix))
    IN  [k \in 1..Len(sorted) |-> sorted[k].value]

RECURSIVE propertyMatrixFrom(_, _, _, _, _)
\* the loop of buildPropertyMatrix over Object.entries(componentIndices)
propertyMatrixFrom(entry, propPrefix, componentIndices, n, res) ==
    IF n > Len(componentIndices) THEN [err |-> FALSE, res |-> res]
    ELSE LET componentId == componentIndices[n].key
             index == componentIndices[n].value
         IN  IF componentId \notin DOMAIN entry.records THEN [err |-> TRUE, res |-> res]
             ELSE IF propRecordsOf(entry.records[componentId], propPrefix) = <<>>
             THEN [err |-> TRUE, res |-> res]
             ELSE propertyMatrixFrom(entry, propPrefix, componentIndices, n + 1,
                     put(res, index, propValuesOf(entry.records[componentId], propPrefix)))

\* buildPropertyMatrix: a sparse array, row index (0-based) -> row
buildPropertyMatrix(md, propId, mixtureId) ==
    LET componentIndices == getComponentIndex(md, mixtureId)
    IN  IF componentIndices.err THEN [err |-> TRUE, res |-> <<>>]
        ELSE propertyMatrixFrom(md[mixtureId], propId \o <<"_">>, componentIndices.res, 1, <<>>)

\* buildAllPropertyMatrices: property symbol -> matrix
buildAllPropertyMatrices(md, mixtureId) ==
    LET collect(built) ==
            IF \E p \in DOMAIN built : built[p].err THEN [err |-> TRUE, res |-> <<>>]
            ELSE [err |-> FALSE, res |-> [p \in DOMAIN built |-> built[p].res]]
        each(props) ==
            collect([p \in {props[k].symbol : k \in 1..Len(props)} |->
                        buildPropertyMatrix(md, p, mixtureId)])
    IN  each(md[mixtureId].props)

\* buildAllMixturePropertyMatrices: label -> property symbol -> matrix
buildAllMixturePropertyMatrices(md, keys) ==
    LET collect(built) ==
            IF \E m \in DOMAIN built : built[m].err THEN [err |-> TRUE, res |-> <<>>]
            ELSE [err |-> FALSE, res |-> [m \in DOMAIN built |-> built[m].res]]
    IN  collect([m \in {keys[k] : k \in 1..Len(keys)} |-> buildAllPropertyMatrices(md, m)])

\* the constructor: normalizeMixture, the mixture keys, all property matrices
construct(raw) ==
    LET engine(normalized, keys, matrices) ==
            IF normalized.err \/ matrices.err
            THEN [err |-> TRUE, matrixData |-> <<>>, mixtureKeys |-> <<>>,
                  mixturePropertyMatrices |-> <<>>]
            ELSE [err |-> FALSE, matrixData |-> normalized.res, mixtureKeys |-> keys,
                  mixturePropertyMatrices |-> matrices.res]
        build(normalized, keys) ==
            engine(normalized, keys,
                   IF normalized.err THEN [err |-> TRUE, res |-> <<>>]
                   ELSE buildAllMixturePropertyMatrices(normalized.res, keys))
    IN  build(normalizeMixture(raw), getMixtureNames(raw))

(***************************************************************************)
(* MoziMatrixData: queries over the constructed engine.                    *)
(***************************************************************************)
Undefined == [def |-> FALSE, n |-> 0]

Defined(n) == [def |-> TRUE, n |-> n]

\* getPropertyPrefix: propertySymbol.split("_")[0]
getPropertyPrefix(propertySymbol) == split(propertySymbol, <<"_">>)[1]

\* getPropertyUnit; reading props of a mixture that is not stored is a TypeError
getPropertyUnit(mixtureName, propertySymbol) ==
    IF mixtureName \notin DOMAIN matrixData THEN [err |-> TRUE, unit |-> <<>>]
    ELSE LET props == matrixData[mixtureName].props
             hits == {k \in 1..Len(props) : props[k].symbol = propertySymbol}
         IN  IF hits = {} THEN [err |-> TRUE, unit |-> <<>>]
             ELSE [err |-> FALSE, unit |-> props[CHOOSE k \in hits : \A h \in hits : k <= h].unit]

\* getPropertyMatrix: exact lookup of the stored label, then of the prefix
getPropertyMatrix(mixtureId, propId) ==
    IF mixtureId \notin DOMAIN matrixData THEN [err |-> TRUE, res |-> <<>>]
    ELSE IF propId \notin DOMAIN mixturePropertyMatrices[mixtureId] THEN [err |-> TRUE, res |-> <<>>]
    ELSE [err |-> FALSE, res |-> mixturePropertyMatrices[mixtureId][propId]]

\* componentIndices[id]: the row index, or undefined
indexOfComponentId(componentIndices, id) ==
    LET hits == {k \in 1..Len(componentIndices) : componentIndices[k].key = id}
    IN  IF hits = {} THEN Undefined
        ELSE Defined(componentIndices[CHOOSE k \in hits : TRUE].value)

\* getProperty: the matrix row of the component
getProperty(propertySymbol, component, mixtureId) ==
    LET thrown == [threw |-> TRUE, def |-> FALSE, row |-> <<>>]
        row(propData, componentIndex) ==
            IF ~componentIndex.def THEN thrown
            ELSE IF componentIndex.n \notin DOMAIN propData
            THEN [threw |-> FALSE, def |-> FALSE, row |-> <<>>]
            ELSE [threw |-> FALSE, def |-> TRUE, row |-> propData[componentIndex.n]]
        indexed(propData, componentIndices) ==
            IF componentIndices.err THEN thrown
            ELSE row(propData,
                     indexOfComponentId(componentIndices.res,
                         set_component_id(component, matrixData[mixtureId].mixtureKey)))
        found(propData) ==
            IF propData.err THEN thrown
            ELSE indexed(propData.res, getComponentIndex(matrixData, mixtureId))
    IN  found(getPropertyMatrix(mixtureId, getPropertyPrefix(propertySymbol)))

\* getMatrixProperty reading the transposed cell propData[j][i]
cellOf_transposed(propData, i, j) ==
    IF j \in DOMAIN propData /\ i + 1 \in DOMAIN propData[j]
    THEN Defined(propData[j][i + 1]) ELSE Undefined

\* propData[i][j] for row and column indices that are numbers (0-based); the
\* caller has checked that row i exists
cellOf(propData, i, j) ==
    IF j + 1 \in DOMAIN propData[i] THEN Defined(propData[i][j + 1]) ELSE Undefined

\* getMatrixProperty: the cell of the ordered pair of components
getMatrixProperty(propertySymbol, components, mixtureId, componentKey, keyDelimiter) ==
    LET component_i == components[1]
        component_j == components[2]
        thrown == [threw |-> TRUE, symbol |-> <<>>, value |-> Undefined, unit |-> <<>>]
        \* i and j are Number(componentIndices[..][id]); Number(undefined) is NaN.
        \* propData[NaN] and a hole of the sparse array are undefined, and reading
        \* [j] of undefined is a TypeError; propData[i][NaN] is undefined
        cell(propPrefix, propUnit, propData, i, j) ==
            IF ~i.def \/ i.n \notin DOMAIN propData THEN thrown
            ELSE [threw |-> FALSE,
                  symbol |-> generateMixturePropertyKey(propPrefix, component_i, component_j,
                                                        componentKey, keyDelimiter),
                  value |-> IF j.def THEN cellOf(propData, i.n, j.n) ELSE Undefined,
                  unit |-> propUnit]
        indexed(propPrefix, propUnit, propData, componentIndices, mixtureKey) ==
            IF componentIndices.err THEN thrown
            ELSE cell(propPrefix, propUnit, propData,
                      indexOfComponentId(componentIndices.res,
                                         set_component_id(component_i, mixtureKey)),
                      indexOfComponentId(componentIndices.res,
                                         set_component_id(component_j, mixtureKey)))
        found(propPrefix, propUnit, propData) ==
            IF propUnit.err \/ propData.err THEN thrown
            ELSE indexed(propPrefix, propUnit.unit, propData.res,
                         getComponentIndex(matrixData, mixtureId),
                         matrixData[mixtureId].mixtureKey)
        lookup(propPrefix) ==
            found(propPrefix, getPropertyUnit(mixtureId, propPrefix),
                  getPropertyMatrix(mixtureId, propPrefix))
    IN  lookup(propertyParser(propertySymbol, PropertyDelimiters).propertyPrefix)

\* mixtureComponents[n - 1] answering with the first component for an index
\* outside the list
componentAt_first(mixtureComponents, n) ==
    IF n \in 1..Len(mixtureComponents) THEN n ELSE 1

\* mixtureComponents[n - 1]: the position n itself, 0 for undefined
componentAt(mixtureComponents, n) ==
    IF n \in 1..Len(mixtureComponents) THEN n ELSE 0

\* ij: the components are encoded in the property symbol
ij(propertySymbol, mixtureId, componentKey, keyDelimiter) ==
    LET thrown == [threw |-> TRUE, symbol |-> <<>>, value |-> Undefined, unit |-> <<>>]
        \* ci, cj: positions (1-based) of the two components, outside the range
        \* when mixtureComponents[n - 1] is undefined or findMixtureComponent null
        pair(mixtureComponents, ci, cj) ==
            IF ci \notin 1..Len(mixtureComponents) \/ cj \notin 1..Len(mixtureComponents)
            THEN thrown
            ELSE getMatrixProperty(propertySymbol,
                                   <<mixtureComponents[ci], mixtureComponents[cj]>>,
                                   mixtureId, componentKey, keyDelimiter)
        position(placeholder, mode, mixtureComponents) ==
            IF mode = "numeric"
            THEN componentAt(mixtureComponents, NumberOfString(placeholder).n)
            ELSE findMixtureComponent(placeholder, mixtureComponents, ComponentKeys)
        resolve(parsed, mixtureComponents) ==
            pair(mixtureComponents, position(parsed.i, parsed.mode, mixtureComponents),
                 position(parsed.j, parsed.mode, mixtureComponents))
    IN  IF mixtureId \notin DOMAIN matrixData THEN thrown
        ELSE resolve(propertyParser(propertySymbol, PropertyDelimiters),
                     matrixData[mixtureId].components)

\* findMixtureId: the first stored label one of whose mixtureIds is the
\* joined names, in the given or the reverse order
findMixtureId(componentNames) ==
    LET mixtureName1 == join(componentNames, mixtureDelimiter)
        mixtureName2 == join([k \in 1..Len(componentNames) |->
                                componentNames[Len(componentNames) + 1 - k]], mixtureDelimiter)
        hits == {k \in 1..Len(mixtureKeys) :
                    \/ inSeq(mixtureName1, matrixData[mixtureKeys[k]].mixtureIds)
                    \/ inSeq(mixtureName2, matrixData[mixtureKeys[k]].mixtureIds)}
    IN  IF componentNames = <<>> \/ hits = {} THEN [err |-> TRUE, mixture |-> <<>>]
        ELSE [err |-> FALSE, mixture |-> mixtureKeys[CHOOSE k \in hits : \A h \in hits : k <= h]]

\* ijs storing the pair (i, j) under the key of (j, i)
componentPairKey_swapped(component_i, component_j, componentKey, keyDelimiter) ==
    set_component_id(component_j, componentKey) \o keyDelimiter
        \o set_component_id(component_i, componentKey)

\* the key under which ijs stores the pair (i, j)
componentPairKey(component_i, component_j, componentKey, keyDelimiter) ==
    set_component_id(component_i, componentKey) \o keyDelimiter
        \o set_component_id(component_j, componentKey)

\* ijs: every ordered pair of the mixture named inside the property symbol
ijs(propertySymbol, componentKey, keyDelimiter) ==
    LET thrown == [threw |-> TRUE, res |-> <<>>]
        keyOf(components, q) ==
            componentPairKey(components[q[1]], components[q[2]], componentKey, keyDelimiter)
        \* a later pair overwrites an earlier one stored under the same key
        lastPair(components, k) ==
            CHOOSE q \in (1..Len(components)) \X (1..Len(components)) :
                /\ keyOf(components, q) = k
                /\ \A r \in (1..Len(components)) \X (1..Len(components)) :
                      keyOf(components, r) = k =>
                          (r[1] - 1) * Len(components) + r[2]
                              <= (q[1] - 1) * Len(components) + q[2]
        collect(components, values) ==
            IF \E q \in DOMAIN values : values[q].threw THEN thrown
            ELSE [threw |-> FALSE,
                  res |-> [k \in {keyOf(components, q) : q \in DOMAIN values} |->
                              values[lastPair(components, k)].value]]
        each(propPrefix, mixtureId, mixtureKey, components) ==
            collect(components,
                    [q \in (1..Len(components)) \X (1..Len(components)) |->
                        ij(propPrefix \o keyDelimiter
                               \o set_component_id(components[q[1]], mixtureKey)
                               \o keyDelimiter
                               \o set_component_id(components[q[2]], mixtureKey),
                           mixtureId, componentKey, keyDelimiter)])
        resolved(parsed, found) ==
            IF found.err THEN thrown
            ELSE each(parsed.propertyPrefix, found.mixture,
                      matrixData[found.mixture].mixtureKey,
                      matrixData[found.mixture].components)
        located(parsed) == resolved(parsed, findMixtureId(<<parsed.i, parsed.j>>))
    IN  located(propertyParser(propertySymbol, PropertyDelimiters))

\* the method findMixtureKey(mixtureIds) of the engine: the first stored label
\* one of whose mixtureIds is among the given ids, compared trimmed and in
\* lower case
findMixtureKeyByIds(mixtureIds) ==
    LET normalizedMixtureIds == [k \in 1..Len(mixtureIds) |-> toLowerCase(trim(mixtureIds[k]))]
        some(ids) == \E n \in 1..Len(ids) : inSeq(toLowerCase(trim(ids[n])), normalizedMixtureIds)
        hits == {k \in 1..Len(mixtureKeys) : some(matrixData[mixtureKeys[k]].mixtureIds)}
    IN  IF mixtureIds = <<>> \/ hits = {} THEN [err |-> TRUE, mixture |-> <<>>]
        ELSE [err |-> FALSE, mixture |-> mixtureKeys[CHOOSE k \in hits : \A h \in hits : k <= h]]

\* propMatrix['value'] ?? 0 with every cell taken as 1
orZero_one(value) == 1

\* propMatrix['value'] ?? 0
orZero(value) == IF value.def THEN value.n ELSE 0

\* _buildMatrixData: the matrix and the dictionary over every ordered pair of
\* the given components; any error is thrown again
buildMatrixData(propertySymbol, components, componentKey, keyDelimiter) ==
    LET thrown == [threw |-> TRUE, numeric |-> <<>>, alphabetic |-> <<>>]
        componentNum == Len(components)
        keyOf(q) ==
            set_component_id(components[q[1]], componentKey) \o keyDelimiter
                \o set_component_id(components[q[2]], componentKey)
        \* a later pair overwrites an earlier one stored under the same key
        lastPair(k) ==
            CHOOSE q \in (1..componentNum) \X (1..componentNum) :
                /\ keyOf(q) = k
                /\ \A r \in (1..componentNum) \X (1..componentNum) :
                      keyOf(r) = k =>
                          (r[1] - 1) * componentNum + r[2] <= (q[1] - 1) * componentNum + q[2]
        collect(values) ==
            IF \E q \in DOMAIN values : values[q].threw THEN thrown
            ELSE [threw |-> FALSE,
                  numeric |-> [i \in 1..componentNum |->
                                  [j \in 1..componentNum |-> orZero(values[<<i, j>>].value)]],
                  alphabetic |-> [k \in {keyOf(q) : q \in DOMAIN values} |->
                                     orZero(values[lastPair(k)].value)]]
        each(propPrefix, propertyDelimiter, mixtureId, mixtureKey) ==
            collect([q \in (1..componentNum) \X (1..componentNum) |->
                        ij(propPrefix \o propertyDelimiter
                               \o set_component_id(components[q[1]], mixtureKey)
                               \o propertyDelimiter
                               \o set_component_id(components[q[2]], mixtureKey),
                           mixtureId, "Name-Formula", <<"_">>)])
        found(parsed, mixture) ==
            IF mixture.err THEN thrown
            ELSE each(parsed.propertyPrefix, parsed.propertyDelimiter, mixture.mixture,
                      matrixData[mixture.mixture].mixtureKey)
    IN  IF trim(propertySymbol) = <<>> \/ components = <<>> THEN thrown
        ELSE found(propertyParser(propertySymbol, PropertyDelimiters),
                   findMixtureKeyByIds(generateMixtureKey(components, ComponentKeys,
                                                          mixtureDelimiter)))

\* mat: the numeric matrix
mat(propertySymbol, components, componentKey, keyDelimiter) ==
    LET numeric(result) == [threw |-> result.threw, res |-> result.numeric]
    IN  numeric(buildMatrixData(propertySymbol, components, componentKey, keyDelimiter))

\* matDict: the dictionary
matDict(propertySymbol, components, componentKey, keyDelimiter) ==
    LET alphabetic(result) == [threw |-> result.threw, res |-> result.alphabetic]
    IN  alphabetic(buildMatrixData(propertySymbol, components, componentKey, keyDelimiter))

(***************************************************************************)
(* The builders of binary mixture data.  An engine instance is named by    *)
(* the number of its allocation within the call.                           *)
(***************************************************************************)
\* normalizeMixtureId: the tokens trimmed and joined by the delimiter
normalizeMixtureId(mixtureId, delimiter) ==
    LET componentIds == split(mixtureId, delimiter)
    IN  join([k \in 1..Len(componentIds) |-> trim(componentIds[k])], delimiter)

\* recordArray.some(record => record is a mixture row whose value is one of the ids)
hasMixtureIn(recordArray, normalizedMixtureIds) ==
    \E k \in 1..Len(recordArray) :
        /\ toLowerCase(recordArray[k].name) = sMixture
        /\ inSeq(toLowerCase(StringOf(recordArray[k].value)), normalizedMixtureIds)

\* the loops of extractBinaryMixtureData run with the delimiters outside and
\* the keys inside
combinationRank_delimiterMajor(c, keys, mixtureDelimiters) ==
    (c[2] - 1) * Len(keys) + c[1]

\* the place of combination c = <<key number, delimiter number>> in the order
\* of the two loops: keys outside, delimiters inside
combinationRank(c, keys, mixtureDelimiters) ==
    (c[1] - 1) * Len(mixtureDelimiters) + c[2]

\* extractBinaryMixtureData: the first key and delimiter under which exactly two
\* row groups carry the pair's label; the label of these groups is rewritten
\* in place to the normalized id, so the caller's data changes too
extractBinaryMixtureData(components, raw, keys, mixtureDelimiters, defaultMixtureDelimiter) ==
    LET thrown == [err |-> TRUE, mixtureId |-> <<>>, records |-> <<>>, data |-> raw]
        lowered(ids) == [k \in 1..Len(ids) |-> toLowerCase(ids[k])]
        matchingRecords(c) ==
            {g \in 1..Len(raw) :
                hasMixtureIn(raw[g], lowered(generateMixtureIds(components, keys[c[1]],
                                                               mixtureDelimiters[c[2]])))}
        labelOfGroup(g) == StringOf(raw[g][findRowByName(raw[g], sMixture)].value)
        relabelled(groups, mixtureId) ==
            [g \in 1..Len(raw) |->
                IF g \in groups
                THEN [raw[g] EXCEPT ![findRowByName(raw[g], sMixture)].value = StrV(mixtureId)]
                ELSE raw[g]]
        result(lo, hi, mixtureId, updated) ==
            [err |-> FALSE, mixtureId |-> mixtureId, records |-> <<updated[lo], updated[hi]>>,
             data |-> updated]
        update(groups, lo, mixtureId) ==
            result(lo, CHOOSE g \in groups : g # lo, mixtureId, relabelled(groups, mixtureId))
        found(groups, lo) ==
            update(groups, lo, normalizeMixtureId(labelOfGroup(lo), defaultMixtureDelimiter))
        take(groups) == found(groups, CHOOSE g \in groups : \A h \in groups : g <= h)
        rank(c) == combinationRank(c, keys, mixtureDelimiters)
        first(hits) ==
            IF hits = {} THEN thrown
            ELSE take(matchingRecords(CHOOSE c \in hits : \A d \in hits : rank(c) <= rank(d)))
    IN  IF Len(components) # 2 THEN thrown
        ELSE first({c \in (1..Len(keys)) \X (1..Len(mixtureDelimiters)) :
                       Cardinality(matchingRecords(c)) = 2})

\* create_binary_mixture_id of mozithermodb-settings: the two ids under the
\* key, joined by "|"
create_binary_mixture_id(component_1, component_2, key) ==
    set_component_id(component_1, key) \o <<"|">> \o set_component_id(component_2, key)

\* analyzeRawData after the constructor: the constructor has analysed the data
analyzeRawData(engine) == engine

\* res[id] = a copy of binaryMixtureData holding engines of its own
aliasEntry_cloned(binaryMixtureData, n) ==
    [p \in DOMAIN binaryMixtureData |-> binaryMixtureData[p] + n]

\* res[id] = binaryMixtureData, for the n-th id
aliasEntry(binaryMixtureData, n) == binaryMixtureData

\* buildBinaryMixtureData; instance names the engine it constructs
buildBinaryMixtureData(mixture, raw, keys, instance) ==
    LET thrown(d) == [threw |-> TRUE, res |-> <<>>, data |-> d]
        allMixtureIds ==
            [n \in 1..Len(keys) |-> create_binary_mixture_id(mixture[1], mixture[2], keys[n])]
            \o [n \in 1..Len(keys) |-> create_binary_mixture_id(mixture[2], mixture[1], keys[n])]
        lastIndex(ids, id) == CHOOSE n \in 1..Len(ids) : ids[n] = id /\ \A h \in (n + 1)..Len(ids) : ids[h] # id
        aliases(ids, binaryMixtureData, d) ==
            [threw |-> FALSE,
             res |-> [id \in {ids[n] : n \in 1..Len(ids)} |->
                         aliasEntry(binaryMixtureData, lastIndex(ids, id))],
             data |-> d]
        properties(props, d) ==
            aliases(allMixtureIds, [p \in {props[k].symbol : k \in 1..Len(props)} |-> instance], d)
        \* getMixturePropertySymbols: reading props of a mixture that is not
        \* stored is a TypeError
        analysed(engine, mixtureId, d) ==
            IF engine.err \/ mixtureId \notin DOMAIN engine.matrixData THEN thrown(d)
            ELSE properties(engine.matrixData[mixtureId].props, d)
        extracted(e) ==
            IF e.err THEN thrown(raw)
            ELSE analysed(analyzeRawData(construct(e.records)), e.mixtureId, e.data)
    IN  IF Len(mixture) # 2 THEN thrown(raw)
        ELSE extracted(extractBinaryMixtureData(mixture, raw, ComponentKeys,
                                                << <<"|">>, <<" ", "|", " ">> >>, <<"|">>))

\* Object.assign keeping the entries the target already has
assign_keepFirst(target, source) ==
    [id \in DOMAIN target \cup DOMAIN source |->
        IF id \in DOMAIN target THEN target[id] ELSE source[id]]

\* Object.assign(target, source)
assign(target, source) ==
    [id \in DOMAIN target \cup DOMAIN source |->
        IF id \in DOMAIN source THEN source[id] ELSE target[id]]

\* buildBinaryMixturesData: the pairs from the n-th on, merged into the result
RECURSIVE buildBinaryMixturesDataFrom(_, _, _, _)
buildBinaryMixturesDataFrom(mixtures, raw, n, allBinaryMixtureData) ==
    LET merge(binaryMixtureData) ==
            IF binaryMixtureData.threw
            THEN [threw |-> TRUE, res |-> <<>>, data |-> binaryMixtureData.data]
            ELSE buildBinaryMixturesDataFrom(mixtures, binaryMixtureData.data, n + 1,
                                             assign(allBinaryMixtureData, binaryMixtureData.res))
    IN  IF n > Len(mixtures) THEN [threw |-> FALSE, res |-> allBinaryMixtureData, data |-> raw]
        ELSE merge(buildBinaryMixtureData(mixtures[n], raw, ComponentKeys, n))

buildBinaryMixturesData(mixtures, raw) == buildBinaryMixturesDataFrom(mixtures, raw, 1, <<>>)

(***************************************************************************)
(* MoziData: the raw records and their cleaned view.                       *)
(***************************************************************************)
\* records.find(record => record.symbol === symbol): index of the row, 0 if none
findBySymbol(records, symbol) ==
    IF \A k \in 1..Len(records) : records[k].symbol # symbol THEN 0
    ELSE CHOOSE k \in 1..Len(records) :
            /\ records[k].symbol = symbol
            /\ \A h \in 1..(k - 1) : records[h].symbol # symbol

\* set addData, as the constructor calls it
addData(records) ==
    [rawThermoRecord |-> records, data |-> cleanRawThermoRecord(records)]

\* addRecord, and addRecords for a list of records
addRecords(raw, records) ==
    [rawThermoRecord |-> raw \o records, data |-> cleanRawThermoRecord(raw \o records)]

\* removeRecordBySymbol: both lists filtered
removeRecordBySymbol(raw, cleaned, symbol) ==
    [rawThermoRecord |-> SelectSeq(raw, LAMBDA record : record.symbol # symbol),
     data |-> SelectSeq(cleaned, LAMBDA record : record.symbol # symbol)]

\* record.value = newValue; if (newUnit) record.unit = newUnit
updatedRecord(record, newValue, newUnit) ==
    [record EXCEPT !.value = NumV(newValue),
                   !.unit = IF newUnit # <<>> THEN newUnit ELSE @]

\* updateRecordBySymbol: throws when the cleaned view has no record of the
\* symbol; else the first raw record of the symbol, if any, and the first
\* cleaned record of the symbol take the new value
updateRecordBySymbol(raw, cleaned, symbol, newValue, newUnit) ==
    LET record_ == findBySymbol(cleaned, symbol)
        rawRecord == findBySymbol(raw, symbol)
    IN  IF record_ = 0 THEN [threw |-> TRUE, rawThermoRecord |-> raw, data |-> cleaned]
        ELSE [threw |-> FALSE,
              rawThermoRecord |->
                  IF rawRecord = 0 THEN raw
                  ELSE [raw EXCEPT ![rawRecord] = updatedRecord(@, newValue, newUnit)],
              data |-> [cleaned EXCEPT ![record_] = updatedRecord(@, newValue, newUnit)]]

\* getDataBySymbol: the first cleaned record of the symbol, or an error
getDataBySymbol(cleaned, symbol) ==
    IF findBySymbol(cleaned, symbol) = 0 THEN [threw |-> TRUE, value |-> NumV(0), unit |-> <<>>]
    ELSE [threw |-> FALSE, value |-> cleaned[findBySymbol(cleaned, symbol)].value,
          unit |-> cleaned[findBySymbol(cleaned, symbol)].unit]

(***************************************************************************)
(* MoziEquation.configure.  configParams is the list of Object.entries of  *)
(* the configuration: key, symbol and scale, scale 0 standing for none.    *)
(* The records of data are the caller's objects, so what setParams writes  *)
(* into them is returned with the parameters.                              *)
(***************************************************************************)
\* one entry of configParams
ConfigParam(key, symbol, scale) == [key |-> key, symbol |-> symbol, scale |-> scale]

\* setParams from the n-th entry of configParams on, scaleOperation 'multiply'
RECURSIVE setParamsFrom(_, _, _, _)
setParamsFrom(configParams, records, n, res) ==
    IF n > Len(configParams) THEN [threw |-> FALSE, params |-> res, data |-> records]
    ELSE LET value == configParams[n]
             dataItem == findBySymbol(records, value.symbol)
             scaled == IF value.scale # 0
                       THEN [records EXCEPT ![dataItem].value.n = @ * value.scale]
                       ELSE records
         IN  IF dataItem = 0 THEN [threw |-> TRUE, params |-> <<>>, data |-> records]
             ELSE setParamsFrom(configParams, scaled, n + 1,
                                put(res, value.key,
                                    [value |-> scaled[dataItem].value.n,
                                     symbol |-> value.symbol, scale |-> value.scale]))

\* setParams(data)
setParams(configParams, records) == setParamsFrom(configParams, records, 1, <<>>)

\* configure(data): this.params = this.setParams(data); an error leaves
\* this.params as it was
configure(configParams, current, records) ==
    LET assigned(r) ==
            [threw |-> r.threw, params |-> IF r.threw THEN current ELSE r.params,
             data |-> r.data]
    IN  assigned(setParams(configParams, records))

(***************************************************************************)
(* Component equations built from raw row groups.  An equation is held by  *)
(* the parameters it was configured with.                                  *)
(***************************************************************************)
\* String(componentKey).split("-"), each part lower-cased
keyParts(componentKey) ==
    CASE componentKey = "Name" -> <<sName>>
      [] componentKey = "Formula" -> <<sFormula>>
      [] componentKey = "Name-State" -> <<sName, sState>>
      [] OTHER -> <<sName, sFormula>>

\* data.find(r => symbol or name, lower-cased, equals the part): index, 0 if none
findIdentityRecord(records, partNormalized) ==
    LET hits == {k \in 1..Len(records) :
                    \/ toLowerCase(records[k].symbol) = partNormalized
                    \/ toLowerCase(records[k].name) = partNormalized}
    IN  IF hits = {} THEN 0 ELSE CHOOSE k \in hits : \A h \in hits : k <= h

\* getComponentIdFromRawThermoRecord: String(record.value) of each part's
\* record joined by "-"; throws when a part has no record
getComponentIdFromRawThermoRecord(records, componentKey) ==
    LET parts == keyParts(componentKey)
        at(n) == findIdentityRecord(records, parts[n])
    IN  IF \E n \in 1..Len(parts) : at(n) = 0 THEN [threw |-> TRUE, id |-> <<>>]
        ELSE [threw |-> FALSE,
              id |-> join([n \in 1..Len(parts) |-> StringOf(records[at(n)].value)], <<"-">>)]

\* assertRawThermoRecordMatchesComponent: TRUE when it returns, FALSE when
\* it throws
assertRawThermoRecordMatchesComponent(component, records, componentKey) ==
    LET fromData == getComponentIdFromRawThermoRecord(records, componentKey)
    IN  ~fromData.threw /\ fromData.id = set_component_id(component, componentKey)

\* extractComponentDataFromRawThermoRecord that takes the first row group
\* when none matches
extractComponentDataFromRawThermoRecord_orFirst(component, groups, componentKey) ==
    LET hits == {k \in 1..Len(groups) :
                    assertRawThermoRecordMatchesComponent(component, groups[k], componentKey)}
    IN  IF hits = {} THEN (IF groups = <<>> THEN 0 ELSE 1)
        ELSE CHOOSE k \in hits : \A h \in hits : k <= h

\* extractComponentDataFromRawThermoRecord: index of the first row group that
\* matches the component; 0 when it throws "No matching data found"
extractComponentDataFromRawThermoRecord(component, groups, componentKey) ==
    LET hits == {k \in 1..Len(groups) :
                    assertRawThermoRecordMatchesComponent(component, groups[k], componentKey)}
    IN  IF hits = {} THEN 0 ELSE CHOOSE k \in hits : \A h \in hits : k <= h

\* clone(), addData = data, configure(): the parameters set from the cleaned
\* records
configureFromRaw(configParams, records) ==
    setParams(configParams, cleanRawThermoRecord(records))

RECURSIVE aliasesFrom(_, _, _, _)
\* componentIds.forEach(id => componentEquation[id] = configuredEquation)
aliasesFrom(componentIds, equation, n, res) ==
    IF n > Len(componentIds) THEN res
    ELSE aliasesFrom(componentIds, equation, n + 1, put(res, componentIds[n], equation))

\* buildComponentEquation
buildComponentEquation(component, configParams, records, componentKey, enableDataComponentMatchCheck, dataComponentMatchKey) ==
    LET componentIds ==
            [n \in 1..Len(componentKey) |-> set_component_id(component, componentKey[n])]
        built(r) ==
            IF r.threw THEN [threw |-> TRUE, componentEquation |-> <<>>]
            ELSE [threw |-> FALSE,
                  componentEquation |-> aliasesFrom(componentIds, [params |-> r.params], 1, <<>>)]
    IN  IF /\ enableDataComponentMatchCheck
           /\ ~assertRawThermoRecordMatchesComponent(component, records, dataComponentMatchKey)
        THEN [threw |-> TRUE, componentEquation |-> <<>>]
        ELSE built(configureFromRaw(configParams, records))

RECURSIVE buildComponentsEquationFrom(_, _, _, _, _, _, _, _)
\* components.forEach of buildComponentsEquation from the n-th component on
buildComponentsEquationFrom(components, configParams, groups, componentKey, enableDataComponentMatchCheck, dataComponentMatchKey, n, componentEquations) ==
    IF n > Len(components) THEN [threw |-> FALSE, componentEquations |-> componentEquations]
    ELSE LET componentData ==
                 extractComponentDataFromRawThermoRecord(components[n], groups,
                                                         dataComponentMatchKey)
             merged(componentEq) ==
                 IF componentEq.threw THEN [threw |-> TRUE, componentEquations |-> <<>>]
                 ELSE buildComponentsEquationFrom(
                          components, configParams, groups, componentKey,
                          enableDataComponentMatchCheck, dataComponentMatchKey, n + 1,
                          assign(componentEquations, componentEq.componentEquation))
         IN  IF componentData = 0 THEN [threw |-> TRUE, componentEquations |-> <<>>]
             ELSE merged(buildComponentEquation(
                             components[n], configParams, groups[componentData],
                             componentKey, enableDataComponentMatchCheck,
                             dataComponentMatchKey))

\* buildComponentsEquation
buildComponentsEquation(components, configParams, groups, componentKey, enableDataComponentMatchCheck, dataComponentMatchKey) ==
    buildComponentsEquationFrom(components, configParams, groups, componentKey,
                                enableDataComponentMatchCheck, dataComponentMatchKey,
                                1, <<>>)

(***************************************************************************)
(* Equations and the Source that holds them.  modelSource is the model     *)
(* source given to new Source(modelSource, "Name-State"): dataSource maps  *)
(* a component id to its thermo record map (symbol to value), and          *)
(* equationSource maps a component id to its equations by property name.   *)
(* An equation is recorded by its symbol and by the symbols of configArgs. *)
(***************************************************************************)
NoSource == [dataSource |-> <<>>, equationSource |-> <<>>]

\* the componentKey of the Source
sourceComponentKey == "Name-State"

sT == <<"T">>

sP == <<"P">>

NullValue == [null |-> TRUE, n |-> 0]

NumberValue(n) == [null |-> FALSE, n |-> n]

MoziEquation(symbol, argumentSymbolList) ==
    [equationSymbol |-> symbol, configArgs |-> argumentSymbolList]

\* the equation function of the examples: it reads a.T.value, which is a
\* TypeError when the args have no key T
equation(args) ==
    IF sT \in DOMAIN args THEN [threw |-> FALSE, value |-> args[sT].value]
    ELSE [threw |-> TRUE, value |-> 0]

\* calc's test of one symbol, taken as always passing
hasArgument_always(argsSymbols, symbol) == TRUE

\* argsSymbols.includes(symbol)
hasArgument(argsSymbols, symbol) == symbol \in argsSymbols

\* MoziEquation.calc: called tells whether the equation function was called
calc(eq, args) ==
    LET evaluated(result) == [threw |-> result.threw, called |-> TRUE, value |-> result.value]
        checked(argsSymbols) ==
            IF \E n \in 1..Len(eq.configArgs) : ~hasArgument(argsSymbols, eq.configArgs[n])
            THEN [threw |-> TRUE, called |-> FALSE, value |-> 0]
            ELSE evaluated(equation(args))
    IN  checked({args[k].symbol : k \in DOMAIN args})

\* eqExtractor
eqExtractor(componentId, propName) ==
    IF componentId \notin DOMAIN modelSource.equationSource
        \/ propName \notin DOMAIN modelSource.equationSource[componentId]
    THEN [null |-> TRUE, eq |-> MoziEquation(<<>>, <<>>)]
    ELSE [null |-> FALSE, eq |-> modelSource.equationSource[componentId][propName]]

\* normalizeComponentData for a data source whose entries are thermo record maps
normalizeComponentData(componentId) ==
    IF componentId \notin DOMAIN modelSource.dataSource THEN [null |-> TRUE, map |-> <<>>]
    ELSE [null |-> FALSE, map |-> modelSource.dataSource[componentId]]

\* checkArgs: the arguments by symbol; throws for a component without data and
\* for a symbol that is neither in the data nor P nor T
checkArgs(componentId, args) ==
    LET checked(dataMap) ==
            IF dataMap.null THEN [threw |-> TRUE, res |-> <<>>]
            ELSE IF \E n \in 1..Len(args) : args[n] \notin DOMAIN dataMap.map \cup {sP, sT}
            THEN [threw |-> TRUE, res |-> <<>>]
            ELSE [threw |-> FALSE, res |-> args]
    IN  checked(normalizeComponentData(componentId))

\* buildArgs without ignoreSymbols: the value of the data, null when the data
\* has none; the caller has checked that the component has data
buildArgs(componentId, args) ==
    LET built(dataMap) ==
            [symbol \in {args[n] : n \in 1..Len(args)} |->
                IF symbol \in DOMAIN dataMap THEN NumberValue(dataMap[symbol]) ELSE NullValue]
    IN  built(normalizeComponentData(componentId).map)

\* the test of eqBuilder's first loop, taken as never true
lacksProperty_never(componentId, propName) == FALSE

\* !this.equationsource[componentId] || !(propName in this.equationsource[componentId])
lacksProperty(componentId, propName) ==
    \/ componentId \notin DOMAIN modelSource.equationSource
    \/ propName \notin DOMAIN modelSource.equationSource[componentId]

\* eqBuilder's second loop from the n-th component id on
RECURSIVE eqBuilderFrom(_, _, _, _)
eqBuilderFrom(componentIds, propName, n, eqSrcComp) ==
    LET componentId == componentIds[n]
        rest(map) == eqBuilderFrom(componentIds, propName, n + 1, map)
        entry(eq, requiredArgs) ==
            IF requiredArgs.threw THEN [threw |-> TRUE, null |-> FALSE, res |-> <<>>]
            ELSE rest([id \in DOMAIN eqSrcComp \cup {componentId} |->
                          IF id = componentId
                          THEN [source |-> eq, inputs |-> buildArgs(componentId, requiredArgs.res),
                                argSymbols |-> eq.configArgs]
                          ELSE eqSrcComp[id]])
        extracted(eq) ==
            IF eq.null THEN rest(eqSrcComp)
            ELSE entry(eq.eq, checkArgs(componentId, eq.eq.configArgs))
    IN  IF n > Len(componentIds) THEN [threw |-> FALSE, null |-> FALSE, res |-> eqSrcComp]
        ELSE extracted(eqExtractor(componentId, propName))

\* Source.eqBuilder
eqBuilder(components, propName) ==
    LET build(componentIds) ==
            IF \E n \in 1..Len(componentIds) : lacksProperty(componentIds[n], propName)
            THEN [threw |-> FALSE, null |-> TRUE, res |-> <<>>]
            ELSE eqBuilderFrom(componentIds, propName, 1, <<>>)
    IN  IF trim(propName) = <<>> THEN [threw |-> TRUE, null |-> FALSE, res |-> <<>>]
        ELSE build([n \in 1..Len(components) |-> set_component_id(components[n], sourceComponentKey)])

\* execEq's loop from the n-th component id on; evaluated lists the calls of
\* equation functions made so far
RECURSIVE execEqFrom(_, _, _, _, _, _)
execEqFrom(componentIds, eqSrcComp, argsValues, n, values, evaluated) ==
    LET componentId == componentIds[n]
        thrown(calls) == [threw |-> TRUE, null |-> FALSE, values |-> <<>>, evaluated |-> calls]
        after(argsForCalc, result, calls) ==
            IF result.threw THEN thrown(calls)
            ELSE execEqFrom(componentIds, eqSrcComp, argsValues, n + 1,
                            Append(values, result.value), calls)
        run(source, argsForCalc, result) ==
            after(argsForCalc, result,
                  IF result.called
                  THEN Append(evaluated, [componentId |-> componentId, args |-> argsForCalc])
                  ELSE evaluated)
        call(source, argsForCalc) == run(source, argsForCalc, calc(source, argsForCalc))
        merged(source, inputs) ==
            IF \E k \in DOMAIN inputs : inputs[k].null THEN thrown(evaluated)
            ELSE call(source, [k \in DOMAIN inputs |-> [symbol |-> k, value |-> inputs[k].n]])
        prepare(entry) ==
            merged(entry.source,
                   [k \in DOMAIN entry.inputs |->
                       IF k \in DOMAIN argsValues THEN NumberValue(argsValues[k])
                       ELSE entry.inputs[k]])
    IN  IF n > Len(componentIds)
        THEN [threw |-> FALSE, null |-> FALSE, values |-> values, evaluated |-> evaluated]
        ELSE prepare(eqSrcComp[componentId])

\* Source.execEq
execEq(components, eqSrcComp, argsValues) ==
    LET exec(componentIds) ==
            IF \E n \in 1..Len(componentIds) : componentIds[n] \notin DOMAIN eqSrcComp
            THEN [threw |-> FALSE, null |-> TRUE, values |-> <<>>, evaluated |-> <<>>]
            ELSE execEqFrom(componentIds, eqSrcComp, argsValues, 1, <<>>, <<>>)
    IN  exec([n \in 1..Len(components) |-> set_component_id(components[n], sourceComponentKey)])

(***************************************************************************)
(* Input data: row groups in the shape of the repository's examples.       *)
(***************************************************************************)
cA == Component(<<"M","e">>, <<"C","1">>, <<"l">>)

cB == Component(<<"E","t">>, <<"C","2">>, <<"l">>)

cC == Component(<<"M","t">>, <<"C","0">>, <<"g">>)

Prefixes == << <<"a">>, <<"b">> >>

\* String.prototype.toUpperCase
toUpperCase(s) ==
    [k \in 1..Len(s) |->
        IF \E h \in 1..Len(LowerChars) : LowerChars[h] = s[k]
        THEN UpperChars[CHOOSE h \in 1..Len(LowerChars) : LowerChars[h] = s[k]]
        ELSE s[k]]

\* a mixture label of two components: the ids under one key, written
\* "A|B", "A | B" or in lower case
labelOf(c1, c2, key, style) ==
    LET id1 == set_component_id(c1, key)
        id2 == set_component_id(c2, key)
    IN  CASE style = "plain" -> id1 \o <<"|">> \o id2
          [] style = "spaced" -> id1 \o <<" ","|"," ">> \o id2
          [] OTHER -> toLowerCase(id1 \o <<"|">> \o id2)

\* the value of coefficient column k of prefix number p in row group number g
coefficient(g, p, k) == (g * (Len(Prefixes) + 1) + p) * (NumCols + 1) + k

\* the coefficient rows p_i_j_1 .. p_i_j_NumCols of one prefix, in ascending
\* or descending order of the suffix
coefficientRowsOf(g, p, descending) ==
    [n \in 1..NumCols |->
        LET k == IF descending THEN NumCols + 1 - n ELSE n
            symbol == Prefixes[p] \o propIdentifier \o <<"_">> \o numToString(k)
        IN  Row(symbol, symbol, NumV(coefficient(g, p, k)), <<"1">>)]

RECURSIVE coefficientRows(_, _, _)
coefficientRows(g, p, descending) ==
    IF p > Len(Prefixes) THEN <<>>
    ELSE coefficientRowsOf(g, p, descending) \o coefficientRows(g, p + 1, descending)

\* one row group: Mixture, Name, Formula, State, then the coefficients
rowGroup(label, c, g, descending, withMixture, withState) ==
    (IF withMixture THEN <<Row(<<"M","i","x","t","u","r","e">>, <<"-">>, StrV(label), <<"N","/","A">>)>>
     ELSE <<>>)
    \o <<Row(<<"N","a","m","e">>, <<"-">>, StrV(c.name), <<"N","/","A">>),
         Row(<<"F","o","r","m","u","l","a">>, <<"-">>, StrV(c.formula), <<"N","/","A">>)>>
    \o (IF withState THEN <<Row(<<"S","t","a","t","e">>, <<"-">>, StrV(c.state), <<"N","/","A">>)>>
        ELSE <<>>)
    \o coefficientRows(g, 1, descending)

Shapes == {"binary", "one", "threeRepeat", "threeDistinct", "noState",
           "unlabelled", "uneven", "twoMixtures"}

\* a row group without the coefficient rows of one prefix
RECURSIVE withoutPrefix(_, _)
withoutPrefix(group, prefix) ==
    IF group = <<>> THEN <<>>
    ELSE (IF startsWith(Head(group).symbol, prefix \o <<"_">>) THEN <<>> ELSE <<Head(group)>>)
         \o withoutPrefix(Tail(group), prefix)

\* a row group without the last coefficient row of one prefix
RECURSIVE withoutLastColumn(_, _)
withoutLastColumn(group, prefix) ==
    IF group = <<>> THEN <<>>
    ELSE (IF Head(group).symbol = prefix \o propIdentifier \o <<"_">> \o numToString(NumCols)
          THEN <<>> ELSE <<Head(group)>>)
         \o withoutLastColumn(Tail(group), prefix)

Styles == {"plain", "spaced", "lower"}

\* the data set of one shape; declaredReversed puts the row group of the
\* label's second component first
dataSet(shape, key, style, declaredReversed, descending) ==
    LET first == IF declaredReversed THEN cB ELSE cA
        second == IF declaredReversed THEN cA ELSE cB
        group(label, c, g) == rowGroup(label, c, g, descending, TRUE, TRUE)
        shaped(label, g1, g2, h) ==
            CASE shape = "binary" -> <<g1, g2>>
              [] shape = "one" -> <<g1>>
              [] shape = "threeRepeat" -> <<g1, g2, group(label, cA, 3)>>
              [] shape = "threeDistinct" -> <<g1, g2, group(label, cC, 3)>>
              [] shape = "noState" -> <<g1, rowGroup(label, second, 2, descending, TRUE, FALSE)>>
              [] shape = "unlabelled" -> <<g1, rowGroup(label, cC, 3, descending, FALSE, FALSE), g2>>
              [] shape = "uneven" -> <<g1, withoutPrefix(g2, Prefixes[Len(Prefixes)])>>
              [] shape = "ragged" -> <<g1, withoutLastColumn(g2, Prefixes[1])>>
              [] OTHER -> <<g1, g2>> \o h
        other(label2) ==
            IF declaredReversed THEN <<group(label2, cC, 4), group(label2, cA, 3)>>
            ELSE <<group(label2, cA, 3), group(label2, cC, 4)>>
        labelled(label) ==
            shaped(label, group(label, first, 1), group(label, second, 2),
                   other(labelOf(cA, cC, key, style)))
    IN  labelled(labelOf(cA, cB, key, style))

\* the inputs: every binary data set, and the other shapes with plain labels
DataSets ==
    {dataSet("binary", key, style, r, d) :
        key \in {ComponentKeys[k] : k \in 1..Len(ComponentKeys)}, style \in Styles,
        r \in BOOLEAN, d \in BOOLEAN}
    \cup
    {dataSet(shape, key, "plain", r, FALSE) :
        shape \in Shapes \ {"binary"},
        key \in {ComponentKeys[k] : k \in 1..Len(ComponentKeys)}, r \in BOOLEAN}

\* binary data sets in which the second row group lacks the last coefficient
\* row of the first prefix
RaggedDataSets ==
    {dataSet("ragged", key, "plain", r, d) :
        key \in {ComponentKeys[k] : k \in 1..Len(ComponentKeys)},
        r \in BOOLEAN, d \in BOOLEAN}

\* data sets whose row groups write the label of one pair in several ways:
\* two groups spaced and a third plain; two groups by name and two by formula
StyledDataSets ==
    LET spaced == labelOf(cA, cB, "Name", "spaced")
        plain == labelOf(cA, cB, "Name", "plain")
        byFormula == labelOf(cA, cB, "Formula", "plain")
        group(label, c, g) == rowGroup(label, c, g, FALSE, TRUE, TRUE)
    IN  {<<group(spaced, cA, 1), group(spaced, cB, 2), group(plain, cA, 3)>>,
         <<group(plain, cA, 3), group(spaced, cA, 1), group(spaced, cB, 2)>>,
         <<group(spaced, cA, 1), group(spaced, cB, 2),
           group(byFormula, cA, 3), group(byFormula, cB, 4)>>,
         <<group(byFormula, cA, 3), group(byFormula, cB, 4),
           group(spaced, cA, 1), group(spaced, cB, 2)>>}

\* the default mixtureDelimiters of extractBinaryMixtureData
MixtureDelimiters == << <<"|">>, <<" ", "|", " ">> >>

(***************************************************************************)
(* The arguments the queries are called with.                              *)
(***************************************************************************)
QueryComponents == {cA, cB, cC}

\* the component cA written in lower case
cALower == Component(toLowerCase(cA.name), toLowerCase(cA.formula), cA.state)

\* components passed to getProperty
PropertyComponents == QueryComponents \cup {cALower}

sym(prefix, i, j) == prefix \o <<"_">> \o i \o <<"_">> \o j

\* property symbols passed to getProperty and getMatrixProperty: two stored
\* prefixes and one that no data set has
PropertySymbols == {sym(<<"a">>, <<"i">>, <<"j">>), sym(<<"b">>, <<"i">>, <<"j">>),
                    sym(<<"z">>, <<"i">>, <<"j">>)}

UnknownMixtureId == <<"Q","|","R">>

\* the id in the other letter case
otherCase(m) == IF toLowerCase(m) = m THEN toUpperCase(m) ELSE toLowerCase(m)

\* mixture ids: every stored label, its two normalized ids (A|B and B|A), the
\* label in another letter case, and an id that is not stored
QueryMixtureIds ==
    {UnknownMixtureId}
    \cup (DOMAIN matrixData)
    \cup UNION {{matrixData[m].mixtureIds[1], matrixData[m].mixtureIds[2], otherCase(m)} :
                    m \in DOMAIN matrixData}

\* placeholders of ij: numbers 0 .. MaxPlaceholder
NumericTokens == {numToString(n) : n \in 0..MaxPlaceholder}

\* placeholders of ij: names and formulas as stored and in another letter
\* case, a combined id, a component of no mixture, and the empty placeholder
ComponentTokens ==
    {cA.name, cB.name, toLowerCase(cA.name), toUpperCase(cB.name),
     cA.formula, cB.formula, toLowerCase(cB.formula),
     set_component_id(cA, "Name-Formula"), <<"X","x">>}

IjSymbols ==
    {sym(<<"a">>, i, j) : i, j \in NumericTokens}
    \cup {sym(<<"a">>, i, j) : i, j \in ComponentTokens}
    \cup {sym(<<"a">>, <<"1">>, <<"X","x">>), sym(<<"a">>, <<"X","x">>, <<"2">>),
          sym(<<"a">>, <<>>, <<>>), <<"a">>, sym(<<"z">>, <<"1">>, <<"2">>),
          sym(<<"b">>, <<"2">>, <<"1">>), sym(<<"b">>, cB.name, cA.name)}

\* "p | i | j"
piped(prefix, i, j) == prefix \o <<" ","|"," ">> \o i \o <<" ","|"," ">> \o j

\* references passed to ijs: the three surface forms, over names, formulas
\* and combined ids in both orders
IjsSymbols ==
    UNION {{piped(<<"a">>, set_component_id(c[1], key), set_component_id(c[2], key)),
            sym(<<"a">>, set_component_id(c[1], key), set_component_id(c[2], key))} :
              c \in {<<cA, cB>>, <<cB, cA>>, <<cA, cC>>}, key \in {"Name", "Formula", "Name-Formula"}}
    \cup {piped(sym(<<"a">>, <<"i">>, <<"j">>), cA.name, cB.name),
          piped(sym(<<"a">>, cA.name, cB.name), cA.name, cB.name),
          sym(<<"a">>, toLowerCase(cA.name), toLowerCase(cB.name)),
          sym(<<"z">>, cA.name, cB.name),
          sym(<<"b">>, cB.name, cA.name)}

QueryComponentKeys == {"Name", "Formula", "Name-Formula"}

\* name lists passed to findMixtureId: names and formulas of a pair in both
\* orders, a pair that shares one component, one name alone and the empty list
QueryComponentNames ==
    {<<cA.name, cB.name>>, <<cB.name, cA.name>>, <<cA.formula, cB.formula>>,
     <<cB.formula, cA.formula>>, <<cA.name, cC.name>>, <<cC.name, cA.name>>,
     <<cB.name, cC.name>>, <<cA.name>>, <<>>}

\* the longest reference of the exhaustive inputs of propertyParser
MaxSymbolLen == 4

\* the characters of the exhaustive inputs: a letter, a digit, both default
\* delimiters and the blank
SymbolChars == {"a", "1", "_", "|", " "}

\* prefixes and placeholders of the structured references
ParserPrefixes == {<<"a">>, <<"k","1">>}

ParserTokens == {<<>>, <<"1">>, <<"2","0">>, <<"x">>, <<"M","e">>, <<"1","x">>, sInfinity}

\* inputs of propertyParser: every string up to MaxSymbolLen, and the three
\* surface forms over the prefixes and placeholders
ParserInputs ==
    UNION {[1..n -> SymbolChars] : n \in 0..MaxSymbolLen}
    \cup {sym(p, x, y) : p \in ParserPrefixes, x \in ParserTokens, y \in ParserTokens}
    \cup {piped(p, cA.name, cB.name) : p \in ParserPrefixes}
    \cup {piped(sym(p, x, y), cA.name, cB.name) :
            p \in ParserPrefixes, x \in ParserTokens, y \in ParserTokens}

\* delimiter lists passed to propertyParser: the default, its reverse, and
\* one delimiter alone
DelimiterLists == {PropertyDelimiters, << <<"_">>, <<"|">> >>, << <<"_">> >>}

\* the longest list of raw records a MoziData holds
MaxRecords == 3

\* records given to MoziData: an identity row, a number, a word under the
\* symbol of the number, and a numeral
DataRows ==
    {Row(<<"N","a","m","e">>, <<"N","a","m","e">>, StrV(cA.name), <<>>),
     Row(<<"T","c">>, <<"T","c">>, NumV(5), <<"K">>),
     Row(<<"T","c">>, <<"T","c">>, StrV(<<"n","/","a">>), <<"K">>),
     Row(<<"P","c">>, <<"P","c">>, StrV(<<"1","2">>), <<"P","a">>)}

\* symbols passed to the methods of MoziData: stored ones, the symbol of the
\* identity row, and one that no record has
DataSymbols == {<<"T","c">>, <<"P","c">>, <<"N","a","m","e">>, <<"Z","z">>}

\* newUnit of updateRecordBySymbol; the empty string stands for none
NewUnits == {<<>>, <<"b","a","r">>}

\* number of configure calls made on one data array
MaxConfigure == 2

\* records of the data array given to configure
ConfigRows ==
    {Row(<<"A">>, <<"A">>, NumV(3), <<"1">>), Row(<<"B">>, <<"B">>, NumV(4), <<"1">>),
     Row(<<"A">>, <<"A">>, NumV(5), <<"1">>)}

\* the data arrays given to configure
ConfigData == UNION {[1..n -> ConfigRows] : n \in 1..MaxRows}

\* the parameters an equation declares: A and B without scale; A with scale
\* 2; A with scale 1 and B; B, then A with scale 2, then C
ConfigParamChoices ==
    {<<ConfigParam(<<"A">>, <<"A">>, 0), ConfigParam(<<"B">>, <<"B">>, 0)>>,
     <<ConfigParam(<<"A">>, <<"A">>, 2)>>,
     <<ConfigParam(<<"A">>, <<"A">>, 1), ConfigParam(<<"B">>, <<"B">>, 0)>>,
     <<ConfigParam(<<"B">>, <<"B">>, 0), ConfigParam(<<"A">>, <<"A">>, 2),
       ConfigParam(<<"C">>, <<"C">>, 0)>>}

\* a row group of one component for an equation with the parameters A and
\* B: the identity rows, the State row on request, then A and, on request, B
equationGroup(c, withState, withB) ==
    <<Row(<<"N","a","m","e">>, <<"N","a","m","e">>, StrV(c.name), <<>>),
      Row(<<"F","o","r","m","u","l","a">>, <<"F","o","r","m","u","l","a">>, StrV(c.formula), <<>>)>>
    \o (IF withState
        THEN <<Row(<<"S","t","a","t","e">>, <<"S","t","a","t","e">>, StrV(c.state), <<>>)>>
        ELSE <<>>)
    \o <<Row(<<"I","n","t","e","r","c","e","p","t">>, <<"A">>, NumV(1), <<"-">>)>>
    \o (IF withB THEN <<Row(<<"S","l","o","p","e">>, <<"B">>, NumV(2), <<"1","/","K">>)>>
        ELSE <<>>)

EquationGroups ==
    {equationGroup(cA, TRUE, TRUE), equationGroup(cA, TRUE, FALSE),
     equationGroup(cB, TRUE, TRUE), equationGroup(cB, FALSE, TRUE),
     equationGroup(cC, TRUE, TRUE), equationGroup(cALower, TRUE, TRUE)}

\* the raw data given to buildComponentsEquation: one or two row groups
EquationDataSets == UNION {[1..n -> EquationGroups] : n \in 1..2}

\* the component lists given to buildComponentsEquation
EquationComponents == {<<cA>>, <<cA, cB>>, <<cB, cA>>, <<cB, cC>>}

\* the componentKey lists given to buildComponentsEquation
EquationKeys == {<<"Name-Formula", "Name-State">>, <<"Name-Formula">>}

\* the parameters of the equation template: A and B; A alone
EquationTemplates ==
    {<<ConfigParam(<<"A">>, <<"A">>, 0), ConfigParam(<<"B">>, <<"B">>, 0)>>,
     <<ConfigParam(<<"A">>, <<"A">>, 0)>>}

(***************************************************************************)
(* The state machine: construction, then queries one after the other.      *)
(***************************************************************************)
\* property symbols passed to mat and matDict: with the placeholders, the bare
\* prefix, and blank
MatSymbols == {sym(<<"a">>, <<"i">>, <<"j">>), sym(<<"b">>, <<"i">>, <<"j">>), <<"a">>, <<" ">>}

\* component lists passed to mat and matDict
MatComponents ==
    {<<cA, cB>>, <<cB, cA>>, <<cALower, cB>>, <<cA, cC>>, <<cA, cB, cC>>, <<cA>>, <<>>}

\* pairs passed to buildBinaryMixtureData
Mixtures == {<<cA, cB>>, <<cB, cA>>, <<cA, cC>>, <<cA>>}

\* key templates requested from buildBinaryMixtureData
RequestedKeys == {ComponentKeys, <<"Name">>, <<"Formula", "Name">>}

\* lists of pairs passed to buildBinaryMixturesData
MixtureLists ==
    {<< <<cA, cB>>, <<cA, cC>> >>, << <<cA, cC>>, <<cA, cB>> >>, << <<cA, cB>>, <<cB, cA>> >>,
     << <<cA, cB>> >>, << <<cA, cB>>, <<cA>> >>, << >>}

\* rows passed to cleanRawThermoRecord on its own: an identity row, a number,
\* a numeral, a blank string, a word, and Infinity as a number and as a string
CleanRows ==
    {Row(<<"N","a","m","e">>, <<"-">>, StrV(cA.name), <<"N","/","A">>),
     Row(<<"T","c">>, <<"T","c">>, NumV(5), <<"K">>),
     Row(<<"P","c">>, <<"P","c">>, StrV(<<"1","2">>), <<"P","a">>),
     Row(<<"V","c">>, <<"V","c">>, StrV(<<>>), <<"1">>),
     Row(<<"Z","c">>, <<"Z","c">>, StrV(<<"n","o","t","-","a","-","n","u","m","b","e","r">>), <<"1">>),
     Row(<<"T","b">>, <<"T","b">>, InfV, <<"K">>),
     Row(<<"T","m">>, <<"T","m">>, StrV(sInfinity), <<"K">>)}

CleanRecords == UNION {[1..n -> CleanRows] : n \in 0..MaxRows}

sCp == <<"C","p">>

sHv == <<"H","v">>

sTc == <<"T","c">>

sA == <<"A">>

\* the equations a component can have: none; Cp of T; Cp of T and P with Hv
\* of T; Cp of T and Tc
EquationChoices ==
    {<<>>,
     [p \in {sCp} |-> MoziEquation(sCp, <<sT>>)],
     [p \in {sCp, sHv} |-> IF p = sCp THEN MoziEquation(sCp, <<sT, sP>>)
                           ELSE MoziEquation(sHv, <<sT>>)],
     [p \in {sCp} |-> MoziEquation(sCp, <<sT, sTc>>)]}

\* the data a component can have: A; A and Tc; A and T
DataChoices ==
    {[x \in {sA} |-> 1],
     [x \in {sA, sTc} |-> IF x = sA THEN 1 ELSE 5],
     [x \in {sA, sT} |-> IF x = sA THEN 1 ELSE 7]}

\* a map from the ids of the components that have an entry
sourceOf(entryA, hasA, entryB, hasB) ==
    [id \in {set_component_id(c, sourceComponentKey) :
                c \in {x \in {cA, cB} : (x = cA /\ hasA) \/ (x = cB /\ hasB)}} |->
        IF id = set_component_id(cA, sourceComponentKey) THEN entryA ELSE entryB]

ModelSources ==
    {[dataSource |-> sourceOf(dA, hasDataA, dB, hasDataB),
      equationSource |-> sourceOf(eA, eA # <<>>, eB, eB # <<>>)] :
        dA \in DataChoices, dB \in {[x \in {sA} |-> 1]}, hasDataA \in BOOLEAN,
        hasDataB \in BOOLEAN, eA \in EquationChoices, eB \in EquationChoices}

\* component lists passed to eqBuilder and execEq
SourceComponents == {<<cA>>, <<cA, cB>>, <<cB, cA>>}

\* property names passed to eqBuilder
PropNames == {sCp, sHv, <<" ">>}

\* argsValues passed to execEq; the empty map stands for none
ArgsValues ==
    {<<>>, [k \in {sT} |-> 3], [k \in {sT, sP} |-> IF k = sT THEN 3 ELSE 1]}

\* args passed to calc: by symbol, and T under another key
CalcArgs ==
    {<<>>,
     [k \in {sT} |-> [symbol |-> sT, value |-> 3]],
     [k \in {sP} |-> [symbol |-> sP, value |-> 1]],
     [k \in {sT, sP} |-> [symbol |-> k, value |-> 3]],
     [k \in {sTc} |-> [symbol |-> sT, value |-> 3]]}

NoCall == [op |-> "none"]

Init ==
    /\ data \in DataSets
    /\ pc = "new"
    /\ matrixData = <<>>
    /\ mixtureKeys = <<>>
    /\ mixturePropertyMatrices = <<>>
    /\ last = NoCall
    /\ modelSource = NoSource
    /\ rawThermoRecord = <<>>
    /\ params = <<>>

\* new MoziMatrixData(data)
Construct ==
    /\ pc = "new"
    /\ \E built \in {construct(data)} :
           /\ pc' = IF built.err THEN "threw" ELSE "ready"
           /\ matrixData' = built.matrixData
           /\ mixtureKeys' = built.mixtureKeys
           /\ mixturePropertyMatrices' = built.mixturePropertyMatrices
    /\ UNCHANGED <<data, last, modelSource, rawThermoRecord, params>>

GetProperty ==
    /\ pc = "ready"
    /\ \E propertySymbol \in PropertySymbols, component \in PropertyComponents,
          mixtureId \in QueryMixtureIds :
          \E r \in {getProperty(propertySymbol, component, mixtureId)} :
              last' = [op |-> "getProperty", propertySymbol |-> propertySymbol,
                       component |-> component, mixtureId |-> mixtureId,
                       threw |-> r.threw, def |-> r.def, row |-> r.row]
    /\ pc' = "called"
    /\ UNCHANGED <<data, matrixData, mixtureKeys, mixturePropertyMatrices, modelSource, rawThermoRecord, params>>

GetMatrixProperty ==
    /\ pc = "ready"
    /\ \E propertySymbol \in PropertySymbols, ci \in QueryComponents, cj \in QueryComponents,
          mixtureId \in QueryMixtureIds :
          \E r \in {getMatrixProperty(propertySymbol, <<ci, cj>>, mixtureId, "Name-Formula", <<"_">>)} :
              last' = [op |-> "getMatrixProperty", propertySymbol |-> propertySymbol,
                       components |-> <<ci, cj>>, mixtureId |-> mixtureId,
                       threw |-> r.threw, symbol |-> r.symbol, value |-> r.value,
                       unit |-> r.unit]
    /\ pc' = "called"
    /\ UNCHANGED <<data, matrixData, mixtureKeys, mixturePropertyMatrices, modelSource, rawThermoRecord, params>>

Ij ==
    /\ pc = "ready"
    /\ \E propertySymbol \in IjSymbols, mixtureId \in QueryMixtureIds :
          \E r \in {ij(propertySymbol, mixtureId, "Name-Formula", <<"_">>)} :
              last' = [op |-> "ij", propertySymbol |-> propertySymbol,
                       mixtureId |-> mixtureId,
                       threw |-> r.threw, symbol |-> r.symbol, value |-> r.value,
                       unit |-> r.unit]
    /\ pc' = "called"
    /\ UNCHANGED <<data, matrixData, mixtureKeys, mixturePropertyMatrices, modelSource, rawThermoRecord, params>>

Ijs ==
    /\ pc = "ready"
    /\ \E propertySymbol \in IjsSymbols, componentKey \in QueryComponentKeys :
          \E r \in {ijs(propertySymbol, componentKey, <<"_">>)} :
              last' = [op |-> "ijs", propertySymbol |-> propertySymbol,
                       componentKey |-> componentKey,
                       threw |-> r.threw, res |-> r.res]
    /\ pc' = "called"
    /\ UNCHANGED <<data, matrixData, mixtureKeys, mixturePropertyMatrices, modelSource, rawThermoRecord, params>>

\* mat forgetting the properties of every stored mixture after it has answered
Mat_forgetting ==
    /\ pc = "ready"
    /\ \E propertySymbol \in MatSymbols, components \in MatComponents,
          componentKey \in QueryComponentKeys :
          \E r \in {mat(propertySymbol, components, componentKey, <<"_">>)} :
              last' = [op |-> "mat", propertySymbol |-> propertySymbol,
                       components |-> components, componentKey |-> componentKey,
                       threw |-> r.threw, res |-> r.res]
    /\ pc' = "called"
    /\ matrixData' = [m \in DOMAIN matrixData |-> [matrixData[m] EXCEPT !.props = <<>>]]
    /\ UNCHANGED <<data, mixtureKeys, mixturePropertyMatrices, modelSource, rawThermoRecord, params>>

Mat ==
    /\ pc = "ready"
    /\ \E propertySymbol \in MatSymbols, components \in MatComponents,
          componentKey \in QueryComponentKeys :
          \E r \in {mat(propertySymbol, components, componentKey, <<"_">>)} :
              last' = [op |-> "mat", propertySymbol |-> propertySymbol,
                       components |-> components, componentKey |-> componentKey,
                       threw |-> r.threw, res |-> r.res]
    /\ pc' = "called"
    /\ UNCHANGED <<data, matrixData, mixtureKeys, mixturePropertyMatrices, modelSource, rawThermoRecord, params>>

MatDict ==
    /\ pc = "ready"
    /\ \E propertySymbol \in MatSymbols, components \in MatComponents,
          componentKey \in QueryComponentKeys :
          \E r \in {matDict(propertySymbol, components, componentKey, <<"_">>)} :
              last' = [op |-> "matDict", propertySymbol |-> propertySymbol,
                       components |-> components, componentKey |-> componentKey,
                       threw |-> r.threw, res |-> r.res]
    /\ pc' = "called"
    /\ UNCHANGED <<data, matrixData, mixtureKeys, mixturePropertyMatrices, modelSource, rawThermoRecord, params>>

\* findMixtureId(componentNames)
FindMixtureId ==
    /\ pc = "ready"
    /\ \E componentNames \in QueryComponentNames :
          \E r \in {findMixtureId(componentNames)} :
              last' = [op |-> "findMixtureId", componentNames |-> componentNames,
                       threw |-> r.err, mixture |-> r.mixture]
    /\ pc' = "called"
    /\ UNCHANGED <<data, matrixData, mixtureKeys, mixturePropertyMatrices, modelSource, rawThermoRecord, params>>

\* the caller takes the result (or catches the error) and goes on to its
\* next call on the same engine
Return ==
    /\ pc = "called"
    /\ pc' = "ready"
    /\ last' = NoCall
    /\ UNCHANGED <<data, matrixData, mixtureKeys, mixturePropertyMatrices, modelSource, rawThermoRecord, params>>

\* buildBinaryMixtureData(mixture, data, mixtureKeys) called on the raw data
BuildBinaryMixtureData ==
    /\ pc = "new"
    /\ \E mixture \in Mixtures, keys \in RequestedKeys :
          \E r \in {buildBinaryMixtureData(mixture, data, keys, 1)} :
              /\ last' = [op |-> "buildBinaryMixtureData", mixture |-> mixture,
                          keys |-> keys, threw |-> r.threw, res |-> r.res]
              /\ data' = r.data
    /\ pc' = "built"
    /\ UNCHANGED <<matrixData, mixtureKeys, mixturePropertyMatrices, modelSource, rawThermoRecord, params>>

\* buildBinaryMixturesData(mixtures, data) called on the raw data
BuildBinaryMixturesData ==
    /\ pc = "new"
    /\ \E mixtures \in MixtureLists :
          \E r \in {buildBinaryMixturesData(mixtures, data)} :
              /\ last' = [op |-> "buildBinaryMixturesData", mixtures |-> mixtures,
                          threw |-> r.threw, res |-> r.res]
              /\ data' = r.data
    /\ pc' = "built"
    /\ UNCHANGED <<matrixData, mixtureKeys, mixturePropertyMatrices, modelSource, rawThermoRecord, params>>

Next ==
    \/ Construct
    \/ GetProperty
    \/ GetMatrixProperty
    \/ Ij
    \/ Ijs
    \/ Mat
    \/ MatDict
    \/ FindMixtureId
    \/ Return

Spec == Init /\ [][Next]_vars

\* the engine built over data in which one component has fewer coefficient
\* rows than the other
RaggedInit ==
    /\ data \in RaggedDataSets
    /\ pc = "new"
    /\ matrixData = <<>>
    /\ mixtureKeys = <<>>
    /\ mixturePropertyMatrices = <<>>
    /\ last = NoCall
    /\ modelSource = NoSource
    /\ rawThermoRecord = <<>>
    /\ params = <<>>

RaggedSpec == RaggedInit /\ [][Next]_vars

\* a program that parses one property reference
ParserInit ==
    /\ data = <<>>
    /\ pc = "new"
    /\ matrixData = <<>>
    /\ mixtureKeys = <<>>
    /\ mixturePropertyMatrices = <<>>
    /\ last \in {[op |-> "pending", propertySymbol |-> s, propertyDelimiters |-> d] :
                    s \in ParserInputs, d \in DelimiterLists}
    /\ modelSource = NoSource
    /\ rawThermoRecord = <<>>
    /\ params = <<>>

\* propertyParser(propertySymbol, propertyDelimiters)
PropertyParser ==
    /\ pc = "new"
    /\ last' = [op |-> "propertyParser", propertySymbol |-> last.propertySymbol,
                propertyDelimiters |-> last.propertyDelimiters,
                res |-> propertyParser(last.propertySymbol, last.propertyDelimiters)]
    /\ pc' = "parsed"
    /\ UNCHANGED <<data, matrixData, mixtureKeys, mixturePropertyMatrices, modelSource, rawThermoRecord, params>>

ParserSpec == ParserInit /\ [][PropertyParser]_vars

\* a program that extracts the row groups of a pair from the raw data
ExtractInit ==
    /\ data \in DataSets \cup StyledDataSets
    /\ pc = "new"
    /\ matrixData = <<>>
    /\ mixtureKeys = <<>>
    /\ mixturePropertyMatrices = <<>>
    /\ last = NoCall
    /\ modelSource = NoSource
    /\ rawThermoRecord = <<>>
    /\ params = <<>>

\* extractBinaryMixtureData(components, data, mixtureKeys) with the default
\* delimiters; before is the caller's data as it was when the call began
ExtractBinaryMixtureData ==
    /\ pc = "new"
    /\ \E components \in Mixtures, keys \in RequestedKeys :
          \E r \in {extractBinaryMixtureData(components, data, keys, MixtureDelimiters, <<"|">>)} :
              /\ last' = [op |-> "extractBinaryMixtureData", components |-> components,
                          keys |-> keys, before |-> data, threw |-> r.err,
                          mixtureId |-> r.mixtureId, records |-> r.records]
              /\ data' = r.data
    /\ pc' = "extracted"
    /\ UNCHANGED <<matrixData, mixtureKeys, mixturePropertyMatrices, modelSource, rawThermoRecord, params>>

\* the same call once more, on the data the first call left behind; first is
\* the outcome of the first call
ExtractBinaryMixtureDataAgain ==
    /\ pc = "extracted"
    /\ \E r \in {extractBinaryMixtureData(last.components, data, last.keys,
                                          MixtureDelimiters, <<"|">>)} :
          /\ last' = [op |-> "extractBinaryMixtureDataAgain", components |-> last.components,
                      keys |-> last.keys, before |-> data, threw |-> r.err,
                      mixtureId |-> r.mixtureId, records |-> r.records,
                      first |-> [threw |-> last.threw, mixtureId |-> last.mixtureId,
                                 records |-> last.records]]
          /\ data' = r.data
    /\ pc' = "extractedAgain"
    /\ UNCHANGED <<matrixData, mixtureKeys, mixturePropertyMatrices, modelSource, rawThermoRecord, params>>

ExtractNext ==
    \/ ExtractBinaryMixtureData
    \/ ExtractBinaryMixtureDataAgain

ExtractSpec == ExtractInit /\ [][ExtractNext]_vars

\* a program that holds a MoziData: new MoziData(records)
DataInit ==
    /\ \E records \in UNION {[1..n -> DataRows] : n \in 0..2} :
          /\ rawThermoRecord = addData(records).rawThermoRecord
          /\ data = addData(records).data
    /\ pc = "ready"
    /\ matrixData = <<>>
    /\ mixtureKeys = <<>>
    /\ mixturePropertyMatrices = <<>>
    /\ last = NoCall
    /\ modelSource = NoSource
    /\ params = <<>>

\* the symbol and the value of the update the previous call made, if it made one
updatedBefore ==
    IF last.op = "updateRecordBySymbol" /\ ~last.threw
    THEN <<[symbol |-> last.symbol, value |-> last.newValue]>> ELSE <<>>

AddRecord ==
    /\ pc = "ready"
    /\ Len(rawThermoRecord) < MaxRecords
    /\ \E record \in DataRows :
          \E r \in {addRecords(rawThermoRecord, <<record>>)} :
              /\ rawThermoRecord' = r.rawThermoRecord
              /\ data' = r.data
    /\ last' = [op |-> "addRecord", threw |-> FALSE, updated |-> updatedBefore]
    /\ UNCHANGED <<pc, matrixData, mixtureKeys, mixturePropertyMatrices, modelSource, params>>

AddRecords ==
    /\ pc = "ready"
    /\ Len(rawThermoRecord) + 2 <= MaxRecords
    /\ \E records \in [1..2 -> DataRows] :
          \E r \in {addRecords(rawThermoRecord, records)} :
              /\ rawThermoRecord' = r.rawThermoRecord
              /\ data' = r.data
    /\ last' = [op |-> "addRecords", threw |-> FALSE, updated |-> updatedBefore]
    /\ UNCHANGED <<pc, matrixData, mixtureKeys, mixturePropertyMatrices, modelSource, params>>

RemoveRecordBySymbol ==
    /\ pc = "ready"
    /\ \E symbol \in DataSymbols :
          \E r \in {removeRecordBySymbol(rawThermoRecord, data, symbol)} :
              /\ rawThermoRecord' = r.rawThermoRecord
              /\ data' = r.data
    /\ last' = [op |-> "removeRecordBySymbol", threw |-> FALSE]
    /\ UNCHANGED <<pc, matrixData, mixtureKeys, mixturePropertyMatrices, modelSource, params>>

\* updateRecordBySymbol(symbol, 7, newUnit); before holds the two lists as
\* they were when the call began
UpdateRecordBySymbol ==
    /\ pc = "ready"
    /\ \E symbol \in DataSymbols, newUnit \in NewUnits :
          \E r \in {updateRecordBySymbol(rawThermoRecord, data, symbol, 7, newUnit)} :
              /\ rawThermoRecord' = r.rawThermoRecord
              /\ data' = r.data
              /\ last' = [op |-> "updateRecordBySymbol", threw |-> r.threw,
                          symbol |-> symbol, newValue |-> 7,
                          before |-> [rawThermoRecord |-> rawThermoRecord, data |-> data]]
    /\ UNCHANGED <<pc, matrixData, mixtureKeys, mixturePropertyMatrices, modelSource, params>>

ClearData ==
    /\ pc = "ready"
    /\ rawThermoRecord' = <<>>
    /\ data' = <<>>
    /\ last' = [op |-> "clearData", threw |-> FALSE]
    /\ UNCHANGED <<pc, matrixData, mixtureKeys, mixturePropertyMatrices, modelSource, params>>

DataNext ==
    \/ AddRecord
    \/ AddRecords
    \/ RemoveRecordBySymbol
    \/ UpdateRecordBySymbol
    \/ ClearData

DataSpec == DataInit /\ [][DataNext]_vars

\* a program that holds a data array and equations to configure with it
ConfigureInit ==
    /\ data \in ConfigData
    /\ pc = "new"
    /\ matrixData = <<>>
    /\ mixtureKeys = <<>>
    /\ mixturePropertyMatrices = <<>>
    /\ last = [op |-> "none", calls |-> 0, original |-> <<>>]
    /\ modelSource = NoSource
    /\ rawThermoRecord = <<>>
    /\ params = <<>>

\* equation.configure(data) on an equation with one of the configurations;
\* the equation is the one configured last when the configuration is the
\* same, a new one otherwise; before is the data array as it was when the
\* call began, original as it was before the first call
Configure ==
    /\ last.calls < MaxConfigure
    /\ \E configParams \in ConfigParamChoices :
          \E r \in {configure(configParams,
                              IF last.calls > 0 /\ last.configParams = configParams
                              THEN params ELSE <<>>, data)} :
              /\ params' = r.params
              /\ data' = r.data
              /\ last' = [op |-> "configure", calls |-> last.calls + 1,
                          configParams |-> configParams, threw |-> r.threw,
                          before |-> data,
                          original |-> IF last.calls = 0 THEN data ELSE last.original]
    /\ pc' = "configured"
    /\ UNCHANGED <<matrixData, mixtureKeys, mixturePropertyMatrices, modelSource, rawThermoRecord>>

ConfigureSpec == ConfigureInit /\ [][Configure]_vars

\* a program that holds raw row groups to build component equations from
EquationsInit ==
    /\ data \in EquationDataSets
    /\ pc = "new"
    /\ matrixData = <<>>
    /\ mixtureKeys = <<>>
    /\ mixturePropertyMatrices = <<>>
    /\ last = [op |-> "none"]
    /\ modelSource = NoSource
    /\ rawThermoRecord = <<>>
    /\ params = <<>>

\* buildComponentsEquation(components, equation, data, componentKey,
\* enableDataComponentMatchCheck, dataComponentMatchKey)
BuildComponentsEquation ==
    /\ pc = "new"
    /\ \E components \in EquationComponents, configParams \in EquationTemplates,
          componentKey \in EquationKeys, enableDataComponentMatchCheck \in BOOLEAN,
          dataComponentMatchKey \in {"Name-Formula", "Name-State"} :
          \E r \in {buildComponentsEquation(components, configParams, data, componentKey,
                                            enableDataComponentMatchCheck,
                                            dataComponentMatchKey)} :
              last' = [op |-> "buildComponentsEquation", components |-> components,
                       configParams |-> configParams, componentKey |-> componentKey,
                       dataComponentMatchKey |-> dataComponentMatchKey,
                       threw |-> r.threw, componentEquations |-> r.componentEquations]
    /\ pc' = "built"
    /\ UNCHANGED <<data, matrixData, mixtureKeys, mixturePropertyMatrices, modelSource,
                   rawThermoRecord, params>>

EquationsSpec == EquationsInit /\ [][BuildComponentsEquation]_vars

\* a program that cleans one raw record: data holds the record alone
CleanInit ==
    /\ data \in {<<record>> : record \in CleanRecords}
    /\ pc = "new"
    /\ matrixData = <<>>
    /\ mixtureKeys = <<>>
    /\ mixturePropertyMatrices = <<>>
    /\ last = NoCall
    /\ modelSource = NoSource
    /\ rawThermoRecord = <<>>
    /\ params = <<>>

\* cleanRawThermoRecord(data) with the default ignoreNames
CleanRawThermoRecord ==
    /\ pc = "new"
    /\ last' = [op |-> "cleanRawThermoRecord", res |-> cleanRawThermoRecord(data[1])]
    /\ pc' = "cleaned"
    /\ UNCHANGED <<data, matrixData, mixtureKeys, mixturePropertyMatrices, modelSource, rawThermoRecord, params>>

CleanSpec == CleanInit /\ [][CleanRawThermoRecord]_vars

\* a program that holds a Source: new Source(modelSource, "Name-State")
SourceInit ==
    /\ data = <<>>
    /\ pc = "new"
    /\ matrixData = <<>>
    /\ mixtureKeys = <<>>
    /\ mixturePropertyMatrices = <<>>
    /\ last = NoCall
    /\ modelSource \in ModelSources
    /\ rawThermoRecord = <<>>
    /\ params = <<>>

\* eq.calc(args) on an equation of the source
Calc ==
    /\ pc = "new"
    /\ \E id \in DOMAIN modelSource.equationSource, args \in CalcArgs :
          \E p \in DOMAIN modelSource.equationSource[id] :
              \E r \in {calc(modelSource.equationSource[id][p], args)} :
                  last' = [op |-> "calc", eq |-> modelSource.equationSource[id][p],
                           args |-> args, threw |-> r.threw, called |-> r.called,
                           value |-> r.value]
    /\ pc' = "calculated"
    /\ UNCHANGED <<data, matrixData, mixtureKeys, mixturePropertyMatrices, modelSource, rawThermoRecord, params>>

\* source.eqBuilder(components, propName)
EqBuilder ==
    /\ pc = "new"
    /\ \E components \in SourceComponents, propName \in PropNames :
          \E r \in {eqBuilder(components, propName)} :
              last' = [op |-> "eqBuilder", components |-> components, propName |-> propName,
                       threw |-> r.threw, null |-> r.null, res |-> r.res]
    /\ pc' = "built"
    /\ UNCHANGED <<data, matrixData, mixtureKeys, mixturePropertyMatrices, modelSource, rawThermoRecord, params>>

\* source.execEq(components, eqSrcComp, argsValues) on the map eqBuilder returned
ExecEq ==
    /\ pc = "built"
    /\ last.op = "eqBuilder"
    /\ ~last.threw
    /\ ~last.null
    /\ \E components \in SourceComponents, argsValues \in ArgsValues :
          \E r \in {execEq(components, last.res, argsValues)} :
              last' = [op |-> "execEq", components |-> components, eqSrcComp |-> last.res,
                       argsValues |-> argsValues, threw |-> r.threw, null |-> r.null,
                       values |-> r.values, evaluated |-> r.evaluated]
    /\ pc' = "executed"
    /\ UNCHANGED <<data, matrixData, mixtureKeys, mixturePropertyMatrices, modelSource, rawThermoRecord, params>>

SourceNext ==
    \/ Calc
    \/ EqBuilder
    \/ ExecEq

SourceSpec == SourceInit /\ [][SourceNext]_vars

\* a program that builds binary mixture data from the raw data
BuilderNext ==
    \/ BuildBinaryMixtureData
    \/ BuildBinaryMixturesData

BuilderSpec == Init /\ [][BuilderNext]_vars

(***************************************************************************)
(* Readings of the input data used to state the properties.                *)
(***************************************************************************)
\* construction has returned and no query is in progress: queries leave the
\* stored matrices unchanged
Built == pc = "ready"

hasRow(group, lname) == \E k \in 1..Len(group) : toLowerCase(group[k].name) = lname

rowValue(group, lname) ==
    StringOf(group[CHOOSE k \in 1..Len(group) : toLowerCase(group[k].name) = lname].value)

\* positions in data of the row groups that carry label m, in declaration order
RECURSIVE groupsFrom(_, _)
groupsFrom(m, n) ==
    IF n > Len(data) THEN <<>>
    ELSE (IF hasRow(data[n], sMixture) /\ rowValue(data[n], sMixture) = m THEN <<data[n]>> ELSE <<>>)
         \o groupsFrom(m, n + 1)

groupsOf(m) == groupsFrom(m, 1)

Labels == {rowValue(data[n], sMixture) : n \in {k \in 1..Len(data) : hasRow(data[k], sMixture)}}

\* the component a row group declares
declared(group) ==
    Component(rowValue(group, sName), rowValue(group, sFormula), rowValue(group, sState))

\* the coefficient rows of a group for a prefix, in input order
RECURSIVE coefficientsOf(_, _)
coefficientsOf(group, prefix) ==
    IF group = <<>> THEN <<>>
    ELSE (IF startsWith(Head(group).symbol, prefix \o propIdentifier \o <<"_">>)
          THEN <<Head(group)>> ELSE <<>>) \o coefficientsOf(Tail(group), prefix)

\* the values of the coefficient rows of a group for a prefix, in input order
valuesOf(group, prefix) ==
    LET rows == coefficientsOf(group, prefix)
    IN  [k \in 1..Len(rows) |-> rows[k].value.n]

\* the same values ordered by the numeric suffix: p_i_j_1, p_i_j_2, ...
valuesBySuffix(group, prefix) ==
    LET rows == coefficientsOf(group, prefix)
    IN  [k \in 1..Len(rows) |->
            rows[CHOOSE h \in 1..Len(rows) :
                    rows[h].symbol = prefix \o propIdentifier \o <<"_">> \o numToString(k)].value.n]

\* two rows hold the same values, in whatever column order
sameValues(a, b) ==
    /\ Len(a) = Len(b)
    /\ {a[k] : k \in 1..Len(a)} = {b[k] : k \in 1..Len(b)}

\* a token names a component: its name, formula or name-formula, in any case
names(token, c) ==
    toLowerCase(token) \in {toLowerCase(c.name), toLowerCase(c.formula),
                            toLowerCase(c.name \o <<"-">> \o c.formula)}

\* the trimmed tokens of a label
tokensOf(m) ==
    LET parts == split(m, <<"|">>) IN [k \in 1..Len(parts) |-> trim(parts[k])]

\* the mixtures of a built engine that two row groups carry
BinaryMixtures == {m \in DOMAIN matrixData : Len(groupsOf(m)) = Len(tokensOf(m)) /\ Len(tokensOf(m)) = 2}

\* the row groups of a binary mixture are declared in the order of the label
declaredInLabelOrder(m) == \A r \in 1..2 : names(tokensOf(m)[r], declared(groupsOf(m)[r]))

(***************************************************************************)
(* C1  Stated: row r of every stored property matrix is the coefficient    *)
(* series of the r-th declared row group of the mixture, also when the     *)
(* declaration order differs from the order of the label's tokens.         *)
(***************************************************************************)
C1_RowsInDeclarationOrder ==
    Built =>
        \A m \in BinaryMixtures : \A p \in DOMAIN mixturePropertyMatrices[m] : \A r \in 1..2 :
            /\ r - 1 \in DOMAIN mixturePropertyMatrices[m][p]
            /\ sameValues(mixturePropertyMatrices[m][p][r - 1], valuesOf(groupsOf(m)[r], p))

\* C1 as amended: row r of every stored property matrix holds the coefficient
\* values of the component that the r-th token of the mixture label names
\* (label order), whatever the order in which the row groups are declared.
C1_RowsInLabelOrder ==
    Built =>
        \A m \in BinaryMixtures : \A p \in DOMAIN mixturePropertyMatrices[m] : \A r \in 1..2 :
            \A n \in 1..2 :
                names(tokensOf(m)[r], declared(groupsOf(m)[n])) =>
                    /\ r - 1 \in DOMAIN mixturePropertyMatrices[m][p]
                    /\ sameValues(mixturePropertyMatrices[m][p][r - 1], valuesOf(groupsOf(m)[n], p))

\* a built engine whose row groups are declared against the label order
C1_Witness ==
    /\ pc = "ready"
    /\ \E m \in BinaryMixtures :
          /\ ~declaredInLabelOrder(m)
          /\ DOMAIN mixturePropertyMatrices[m] # {}

(***************************************************************************)
(* C2  Stated: in every row of every property matrix the values are in the *)
(* order of the numeric suffix of the coefficient symbols, whatever the    *)
(* order of the coefficient rows in the input row group.                   *)
(***************************************************************************)
C2_ColumnsBySuffix ==
    Built =>
        \A m \in BinaryMixtures : \A p \in DOMAIN mixturePropertyMatrices[m] :
            \A r \in DOMAIN mixturePropertyMatrices[m][p] :
                \E n \in 1..2 :
                    mixturePropertyMatrices[m][p][r] = valuesBySuffix(groupsOf(m)[n], p)

(***************************************************************************)
(* Readings of a finished call.                                            *)
(***************************************************************************)
\* the components the row groups of label m declare
componentsOfMixture(m) == {declared(groupsOf(m)[n]) : n \in 1..Len(groupsOf(m))}

\* an id names the stored mixture m: the same tokens, in either order and in
\* any letter case
namesMixture(id, m) ==
    LET a == tokensOf(id)
        b == tokensOf(m)
    IN  /\ Len(a) = 2 /\ Len(b) = 2
        /\ \/ toLowerCase(a[1]) = toLowerCase(b[1]) /\ toLowerCase(a[2]) = toLowerCase(b[2])
           \/ toLowerCase(a[1]) = toLowerCase(b[2]) /\ toLowerCase(a[2]) = toLowerCase(b[1])

\* the prefix of a property symbol p_i_j
prefixOf(propertySymbol) == split(propertySymbol, <<"_">>)[1]

\* the row of the matrix of (m, p) that holds the coefficients of component c
rowHolding(m, p, c) ==
    CHOOSE r \in DOMAIN mixturePropertyMatrices[m][p] :
        \E n \in 1..Len(groupsOf(m)) :
            /\ declared(groupsOf(m)[n]) = c
            /\ sameValues(mixturePropertyMatrices[m][p][r], valuesOf(groupsOf(m)[n], p))

\* the names and formulas of a component, as written and in the other cases
tokensFor(c) ==
    {c.name, c.formula, toLowerCase(c.name), toLowerCase(c.formula),
     toUpperCase(c.name), toUpperCase(c.formula)}

(***************************************************************************)
(* C3  Stated: getProperty, getMatrixProperty and ij, called with an id    *)
(* that names a stored mixture in the reverse order or in another letter   *)
(* case, return the same result as when called with the stored label.      *)
(***************************************************************************)
C3_AnyOrderAnyCase ==
    \A m \in DOMAIN matrixData :
        /\ (last.op = "getProperty" /\ namesMixture(last.mixtureId, m)) =>
              LET r == getProperty(last.propertySymbol, last.component, m)
              IN  last.threw = r.threw /\ last.def = r.def /\ last.row = r.row
        /\ (last.op = "getMatrixProperty" /\ namesMixture(last.mixtureId, m)) =>
              LET r == getMatrixProperty(last.propertySymbol, last.components, m,
                                         "Name-Formula", <<"_">>)
              IN  last.threw = r.threw /\ last.value = r.value
        /\ (last.op = "ij" /\ namesMixture(last.mixtureId, m)) =>
              LET r == ij(last.propertySymbol, m, "Name-Formula", <<"_">>)
              IN  last.threw = r.threw /\ last.value = r.value

(***************************************************************************)
(* C4  For components A and B of a stored mixture m and a stored prefix p, *)
(* getMatrixProperty(p, [A, B], m) returns the cell in the row that holds  *)
(* A's coefficients and the column numbered by the row that holds B's;     *)
(* since the pair ranges over both orders, [B, A] reads the swapped cell.  *)
(***************************************************************************)
C4_CellOfOrderedPair ==
    (/\ last.op = "getMatrixProperty"
     /\ last.mixtureId \in DOMAIN matrixData
     /\ prefixOf(last.propertySymbol) \in DOMAIN mixturePropertyMatrices[last.mixtureId]
     /\ last.components[1] \in componentsOfMixture(last.mixtureId)
     /\ last.components[2] \in componentsOfMixture(last.mixtureId))
    => LET m == last.mixtureId
           p == prefixOf(last.propertySymbol)
           rowA == rowHolding(m, p, last.components[1])
           rowB == rowHolding(m, p, last.components[2])
       IN  /\ ~last.threw
           /\ last.value = Defined(mixturePropertyMatrices[m][p][rowA][rowB + 1])

\* a call on two different components of the mixture whose two cells differ
C4_Witness ==
    /\ last.op = "getMatrixProperty"
    /\ ~last.threw
    /\ last.value.def
    /\ last.components[1] # last.components[2]
    /\ last.components[1] \in componentsOfMixture(last.mixtureId)
    /\ last.components[2] \in componentsOfMixture(last.mixtureId)
    /\ LET m == last.mixtureId
           p == prefixOf(last.propertySymbol)
           rowA == rowHolding(m, p, last.components[1])
           rowB == rowHolding(m, p, last.components[2])
       IN  mixturePropertyMatrices[m][p][rowA][rowB + 1] # mixturePropertyMatrices[m][p][rowB][rowA + 1]

(***************************************************************************)
(* C5  Stated: ijs called with "p | A | B", p a stored prefix and A, B the *)
(* two tokens of a stored label in either order, resolves the mixture and  *)
(* returns componentCount * componentCount entries.                        *)
(***************************************************************************)
C5_PipedReferenceEnumerates ==
    last.op = "ijs" =>
        \A m \in DOMAIN matrixData : \A p \in DOMAIN mixturePropertyMatrices[m] :
            \A t \in {<<tokensOf(m)[1], tokensOf(m)[2]>>, <<tokensOf(m)[2], tokensOf(m)[1]>>} :
                last.propertySymbol = p \o <<" ", "|", " ">> \o t[1] \o <<" ", "|", " ">> \o t[2] =>
                    /\ ~last.threw
                    /\ Cardinality(DOMAIN last.res) =
                          Len(matrixData[m].components) * Len(matrixData[m].components)

C7_TokensAsPlaceholders ==
    (last.op = "ij" /\ last.mixtureId \in DOMAIN matrixData) =>
        LET m == last.mixtureId
        IN  \A p \in DOMAIN mixturePropertyMatrices[m] : \A i, j \in 1..2 :
                \A ti \in tokensFor(declared(groupsOf(m)[i])) :
                    \A tj \in tokensFor(declared(groupsOf(m)[j])) :
                        last.propertySymbol = p \o <<"_">> \o ti \o <<"_">> \o tj =>
                            LET r == ij(p \o <<"_">> \o numToString(i) \o <<"_">> \o numToString(j),
                                        m, "Name-Formula", <<"_">>)
                            IN  /\ ~last.threw /\ ~r.threw
                                /\ last.value.def
                                /\ last.value = r.value

\* ij has answered a symbol whose first token is a component name in a letter
\* case other than the declared one
C7_Witness ==
    /\ last.op = "ij"
    /\ ~last.threw
    /\ last.value.def
    /\ last.mixtureId \in DOMAIN matrixData
    /\ \E i, j \in 1..2 :
          LET ci == declared(groupsOf(last.mixtureId)[i])
              cj == declared(groupsOf(last.mixtureId)[j])
          IN  /\ i # j
              /\ \E ti \in tokensFor(ci) \ {ci.name, ci.formula} : \E tj \in tokensFor(cj) :
                    last.propertySymbol = <<"a", "_">> \o ti \o <<"_">> \o tj

(***************************************************************************)
(* C8  Stated: when some label is carried by a number of row groups other  *)
(* than two, the constructor throws and no property matrix is built.       *)
(***************************************************************************)
C8_NonBinaryThrows ==
    (pc # "new" /\ \E m \in Labels : Len(groupsOf(m)) # 2) =>
        pc = "threw" /\ mixturePropertyMatrices = <<>>

(***************************************************************************)
(* C9  If a row group that has a Mixture row lacks a Name, Formula or      *)
(* State row, the constructor throws and leaves no engine; row groups that *)
(* have no Mixture row are ignored: the constructor ends as it does on the *)
(* data without them.                                                      *)
(***************************************************************************)
labelledGroups ==
    LET keep(group) == hasRow(group, sMixture) IN SelectSeq(data, keep)

someIdentityMissing ==
    \E n \in 1..Len(data) :
        /\ hasRow(data[n], sMixture)
        /\ ~(hasRow(data[n], sName) /\ hasRow(data[n], sFormula) /\ hasRow(data[n], sState))

C9_MissingIdentityThrows ==
    (pc \in {"ready", "threw"}) =>
        /\ someIdentityMissing => (pc = "threw" /\ matrixData = <<>>)
        /\ LET built == construct(labelledGroups)
           IN  /\ (pc = "threw") = built.err
               /\ matrixData = built.matrixData
               /\ mixtureKeys = built.mixtureKeys
               /\ mixturePropertyMatrices = built.mixturePropertyMatrices

\* the constructor has thrown on data in which a labelled group has no State row
C9_Witness ==
    /\ pc = "threw"
    /\ \E n \in 1..Len(data) :
          /\ hasRow(data[n], sMixture)
          /\ hasRow(data[n], sName)
          /\ hasRow(data[n], sFormula)
          /\ ~hasRow(data[n], sState)

(***************************************************************************)
(* C10  Stated: getProperty and getMatrixProperty throw when the mixture   *)
(* id is not stored, the prefix is not available for the mixture, or a     *)
(* passed component, first or second, is not a component of the mixture;   *)
(* a result that is returned always has a defined value.                   *)
(***************************************************************************)
C10_ThrowsNeverUndefined ==
    /\ last.op = "getProperty" =>
          /\ (\/ last.mixtureId \notin DOMAIN matrixData
              \/ prefixOf(last.propertySymbol) \notin DOMAIN mixturePropertyMatrices[last.mixtureId]
              \/ last.component \notin componentsOfMixture(last.mixtureId)) => last.threw
          /\ ~last.threw => last.def
    /\ last.op = "getMatrixProperty" =>
          /\ (\/ last.mixtureId \notin DOMAIN matrixData
              \/ prefixOf(last.propertySymbol) \notin DOMAIN mixturePropertyMatrices[last.mixtureId]
              \/ last.components[1] \notin componentsOfMixture(last.mixtureId)
              \/ last.components[2] \notin componentsOfMixture(last.mixtureId)) => last.threw
          /\ ~last.threw => last.value.def

(***************************************************************************)
(* C11  Stated: getProperty(p, c, m), for a stored prefix p and a c whose  *)
(* name and formula equal those of a component of m up to letter case,     *)
(* returns the matrix row of that component, under every id convention of  *)
(* the label.                                                              *)
(***************************************************************************)
sameUpToCase(c, d) ==
    /\ toLowerCase(c.name) = toLowerCase(d.name)
    /\ toLowerCase(c.formula) = toLowerCase(d.formula)

C11_RowCaseInsensitive ==
    (/\ last.op = "getProperty"
     /\ last.mixtureId \in DOMAIN matrixData
     /\ prefixOf(last.propertySymbol) \in DOMAIN mixturePropertyMatrices[last.mixtureId])
    => \A d \in componentsOfMixture(last.mixtureId) :
          sameUpToCase(last.component, d) =>
              /\ ~last.threw
              /\ last.def
              /\ last.row = mixturePropertyMatrices[last.mixtureId][prefixOf(last.propertySymbol)]
                                [rowHolding(last.mixtureId, prefixOf(last.propertySymbol), d)]

(***************************************************************************)
(* C12  Stated: for the components A and B of a stored mixture whose label *)
(* is written with their names, in any letter case and spacing,            *)
(* findMixtureId([A.name, B.name]) and findMixtureId([B.name, A.name])     *)
(* succeed and return the stored label.                                    *)
(***************************************************************************)
labelledByNames(m) ==
    /\ m \in BinaryMixtures
    /\ \A r \in 1..2 : \E n \in 1..2 :
          toLowerCase(tokensOf(m)[r]) = toLowerCase(declared(groupsOf(m)[n]).name)

C12_FindMixtureIdBothOrders ==
    last.op = "findMixtureId" =>
        \A m \in {x \in DOMAIN matrixData : labelledByNames(x)} : \A i, j \in 1..2 :
            (/\ i # j
             /\ last.componentNames = <<declared(groupsOf(m)[i]).name, declared(groupsOf(m)[j]).name>>)
            => (~last.threw /\ last.mixture = m)

(***************************************************************************)
(* C13  Stated: props of a mixture has exactly one entry for every prefix  *)
(* (the text before propIdentifier) of the coefficient rows of the         *)
(* mixture, and no prefix twice.                                           *)
(***************************************************************************)
prefixesOfGroup(group) ==
    {split(group[k].symbol, propIdentifier)[1] :
        k \in {n \in 1..Len(group) : includes(group[n].symbol, propIdentifier)}}

entriesFor(m, p) == {k \in 1..Len(matrixData[m].props) : matrixData[m].props[k].symbol = p}

coveringMixtures(p, components) ==
    {m \in BinaryMixtures :
        /\ p \in DOMAIN mixturePropertyMatrices[m]
        /\ Len(components) = 2
        /\ components[1] # components[2]
        /\ componentsOfMixture(m) = {components[1], components[2]}}

\* the stored cell of the ordered pair (ci, cj) in the matrix of (m, p)
storedCell(m, p, ci, cj) ==
    mixturePropertyMatrices[m][p][rowHolding(m, p, ci)][rowHolding(m, p, cj) + 1]

aliasesOf(mixture, keys) ==
    {set_component_id(mixture[a], keys[n]) \o mixtureDelimiter \o set_component_id(mixture[3 - a], keys[n]) :
        a \in 1..2, n \in 1..Len(keys)}

\* the row groups of data that carry a label of the pair, in any letter case
groupsOfPair(mixture) ==
    SelectSeq(data, LAMBDA group :
        /\ hasRow(group, sMixture)
        /\ toLowerCase(rowValue(group, sMixture))
              \in {toLowerCase(id) : id \in aliasesOf(mixture, ComponentKeys)})

\* the prefixes the engine built for the pair exposes: those of its props
exposedPrefixes(mixture) ==
    prefixesOfGroup(groupsOfPair(mixture)[Len(groupsOfPair(mixture))])

C15_AliasesShareOneEngine ==
    (last.op = "buildBinaryMixtureData" /\ ~last.threw)
    => /\ DOMAIN last.res = aliasesOf(last.mixture, last.keys)
       /\ \A a \in DOMAIN last.res :
             /\ DOMAIN last.res[a] = exposedPrefixes(last.mixture)
             /\ \A b \in DOMAIN last.res : \A p, q \in exposedPrefixes(last.mixture) :
                   last.res[a][p] = last.res[b][q]

\* a map with six aliases, each holding the engine under two prefixes
C15_Witness ==
    /\ last.op = "buildBinaryMixtureData"
    /\ ~last.threw
    /\ last.keys = ComponentKeys
    /\ Cardinality(DOMAIN last.res) = 6
    /\ \A a \in DOMAIN last.res : Cardinality(DOMAIN last.res[a]) >= 2

(***************************************************************************)
(* C16  buildBinaryMixturesData processes the pairs in list order and      *)
(* merges with last-write-wins: the keys of the result are the union of    *)
(* the alias keys of all pairs, and each key holds the property map built  *)
(* for the last pair of the list that produces the key; an earlier entry   *)
(* under the key is overwritten without error.                             *)
(***************************************************************************)
\* the number of the last pair of the list that produces the key
lastProducing(mixtures, id) ==
    CHOOSE n \in 1..Len(mixtures) :
        /\ id \in aliasesOf(mixtures[n], ComponentKeys)
        /\ \A h \in (n + 1)..Len(mixtures) : id \notin aliasesOf(mixtures[h], ComponentKeys)

C16_LastWriteWins ==
    (last.op = "buildBinaryMixturesData" /\ ~last.threw)
    => /\ DOMAIN last.res =
             UNION {aliasesOf(last.mixtures[n], ComponentKeys) : n \in 1..Len(last.mixtures)}
       /\ \A id \in DOMAIN last.res :
             LET n == lastProducing(last.mixtures, id)
             IN  last.res[id] = [p \in exposedPrefixes(last.mixtures[n]) |-> n]

\* two pairs that produce the same keys: every key holds the map of the second
C16_Witness ==
    /\ last.op = "buildBinaryMixturesData"
    /\ ~last.threw
    /\ Len(last.mixtures) = 2
    /\ aliasesOf(last.mixtures[1], ComponentKeys) = aliasesOf(last.mixtures[2], ComponentKeys)
    /\ \A id \in DOMAIN last.res : \E p \in DOMAIN last.res[id] : last.res[id][p] = 2

(***************************************************************************)
(* C17  cleanRawThermoRecord returns, in input order, exactly the rows     *)
(* whose name is not in the ignore set and whose value is a number or a    *)
(* string coercible to a finite number, with the value converted; the      *)
(* other rows are dropped, so the output has the input count minus the     *)
(* ignored and the non-coercible rows, and every output value is a finite  *)
(* number.                                                                 *)
(***************************************************************************)
\* a finite number, or a string that Number turns into a finite number
coercibleToFinite(value) ==
    IF value.t = "num" THEN ~value.inf
    ELSE trim(value.s) = <<>> \/ \A k \in 1..Len(trim(value.s)) : isDigit(trim(value.s)[k])

finiteValueOf(value) ==
    IF value.t = "num" THEN value
    ELSE IF trim(value.s) = <<>> THEN NumV(0) ELSE NumV(digitsValue(trim(value.s)))

ignoredRows(record) == {k \in 1..Len(record) : record[k].name \in IgnoreNames}

nonCoercibleRows(record) ==
    {k \in 1..Len(record) : record[k].name \notin IgnoreNames /\ ~coercibleToFinite(record[k].value)}

keptRows(record) ==
    SelectSeq(record, LAMBDA r : r.name \notin IgnoreNames /\ coercibleToFinite(r.value))

C17_CleanKeepsFiniteRows ==
    last.op = "cleanRawThermoRecord"
    => /\ last.res = [k \in 1..Len(keptRows(data[1])) |->
                         [keptRows(data[1])[k] EXCEPT !.value = finiteValueOf(@)]]
       /\ Len(last.res) = Len(data[1]) - Cardinality(ignoredRows(data[1]))
                              - Cardinality(nonCoercibleRows(data[1]))
       /\ \A k \in 1..Len(last.res) : last.res[k].value.t = "num" /\ ~last.res[k].value.inf

(***************************************************************************)
(* C18  After construction the engine is read-only: no call of             *)
(* getProperty, getMatrixProperty, ij, ijs, mat, matDict or findMixtureId, *)
(* throwing or not, changes matrixData or mixturePropertyMatrices, and     *)
(* the same call made again returns an equal result.                       *)
(***************************************************************************)
\* the call recorded in last, made again in the present state, gives the
\* recorded result
repeatedCallAgrees ==
    CASE last.op = "getProperty" ->
            getProperty(last.propertySymbol, last.component, last.mixtureId)
                = [threw |-> last.threw, def |-> last.def, row |-> last.row]
      [] last.op = "getMatrixProperty" ->
            getMatrixProperty(last.propertySymbol, last.components, last.mixtureId,
                              "Name-Formula", <<"_">>)
                = [threw |-> last.threw, symbol |-> last.symbol, value |-> last.value,
                   unit |-> last.unit]
      [] last.op = "ij" ->
            ij(last.propertySymbol, last.mixtureId, "Name-Formula", <<"_">>)
                = [threw |-> last.threw, symbol |-> last.symbol, value |-> last.value,
                   unit |-> last.unit]
      [] last.op = "ijs" ->
            ijs(last.propertySymbol, last.componentKey, <<"_">>)
                = [threw |-> last.threw, res |-> last.res]
      [] last.op = "mat" ->
            mat(last.propertySymbol, last.components, last.componentKey, <<"_">>)
                = [threw |-> last.threw, res |-> last.res]
      [] last.op = "matDict" ->
            matDict(last.propertySymbol, last.components, last.componentKey, <<"_">>)
                = [threw |-> last.threw, res |-> last.res]
      [] last.op = "findMixtureId" ->
            findMixtureId(last.componentNames) = [err |-> last.threw, mixture |-> last.mixture]
      [] OTHER -> TRUE

\* a step taken once the engine is built leaves the engine as it is
stepLeavesEngine ==
    pc \in {"ready", "called"} =>
        /\ matrixData' = matrixData
        /\ mixturePropertyMatrices' = mixturePropertyMatrices

symbolsOf(args) == {args[k].symbol : k \in DOMAIN args}

requiredSymbols(eq) == {eq.configArgs[n] : n \in 1..Len(eq.configArgs)}

idsOf(components) ==
    {set_component_id(components[n], sourceComponentKey) : n \in 1..Len(components)}

\* the inputs of the component that are null and that argsValues does not give
stillNull(eqSrcComp, id, argsValues) ==
    {k \in DOMAIN eqSrcComp[id].inputs :
        eqSrcComp[id].inputs[k].null /\ k \notin DOMAIN argsValues}

C19_NoEvaluationWithMissingArgument ==
    /\ last.op = "calc" =>
          (~(requiredSymbols(last.eq) \subseteq symbolsOf(last.args))
              => last.threw /\ ~last.called)
    /\ (last.op = "execEq" /\ ~last.null) =>
          /\ (\E id \in idsOf(last.components) :
                  stillNull(last.eqSrcComp, id, last.argsValues) # {}) => last.threw
          /\ \A n \in 1..Len(last.evaluated) :
                /\ requiredSymbols(last.eqSrcComp[last.evaluated[n].componentId].source)
                      \subseteq symbolsOf(last.evaluated[n].args)
                /\ stillNull(last.eqSrcComp, last.evaluated[n].componentId, last.argsValues) = {}

\* execEq threw for the second component after it evaluated the equation of
\* the first
C19_Witness ==
    /\ last.op = "execEq"
    /\ last.threw
    /\ Len(last.evaluated) = 1
    /\ \E id \in idsOf(last.components) : stillNull(last.eqSrcComp, id, last.argsValues) # {}

(***************************************************************************)
(* C20  Stated: eqBuilder(components, propName) returns null, and builds   *)
(* no partial map, when the equation source lacks propName for at least    *)
(* one of the components; otherwise it returns an entry for every          *)
(* component of the list.                                                  *)
(***************************************************************************)
\* the equation source has no equation of the name for the component
sourceLacks(c, propName) ==
    \/ set_component_id(c, sourceComponentKey) \notin DOMAIN modelSource.equationSource
    \/ propName \notin DOMAIN modelSource.equationSource[set_component_id(c, sourceComponentKey)]

someComponentLacks(components, propName) ==
    \E n \in 1..Len(components) : sourceLacks(components[n], propName)

\* the component has data, and every argument symbol of its equation is in
\* the data or is P or T
argumentsResolvable(c, propName) ==
    LET id == set_component_id(c, sourceComponentKey)
    IN  /\ id \in DOMAIN modelSource.dataSource
        /\ requiredSymbols(modelSource.equationSource[id][propName])
              \subseteq (DOMAIN modelSource.dataSource[id] \cup {sP, sT})

resolvesByNumber(token, m) ==
    /\ token # <<>>
    /\ \A k \in 1..Len(token) : isDigit(token[k])
    /\ digitsValue(token) \in 1..Len(matrixData[m].components)

\* the placeholder matches a component of m by name, formula or name-formula
resolvesByToken(token, m) ==
    \E n \in 1..Len(matrixData[m].components) :
        \E key \in {"Name", "Formula", "Name-Formula"} :
            toLowerCase(set_component_id(matrixData[m].components[n], key)) = toLowerCase(token)

\* both placeholders of the reference resolve, as positions or as tokens
bothResolve(ref, m) ==
    LET parsed == propertyParser(ref, PropertyDelimiters)
    IN  \/ resolvesByNumber(parsed.i, m) /\ resolvesByNumber(parsed.j, m)
        \/ resolvesByToken(parsed.i, m) /\ resolvesByToken(parsed.j, m)

\* C22: ij(ref, m) on a stored mixture m throws whenever the two placeholders
\* of ref do not both resolve to components of m: positions outside
\* 1..componentCount (0 included), a token matching no component by name,
\* formula or name-formula, one numeral with one unknown token, or empty
\* placeholders.
C22_UnresolvedPlaceholdersThrow ==
    (pc = "called" /\ last.op = "ij" /\ last.mixtureId \in DOMAIN matrixData) =>
        (~bothResolve(last.propertySymbol, last.mixtureId) => last.threw)

\* ij has thrown for: a position 0, a position beyond the last component, an
\* unknown token, a numeral with an unknown token, and empty placeholders
C22_Witness ==
    /\ pc = "called"
    /\ last.op = "ij"
    /\ last.mixtureId \in DOMAIN matrixData
    /\ last.threw
    /\ last.propertySymbol = sym(<<"a">>, <<"1">>, <<"X","x">>)
    /\ ~bothResolve(sym(<<"a">>, <<"0">>, <<"1">>), last.mixtureId)
    /\ ~bothResolve(sym(<<"a">>, <<>>, <<>>), last.mixtureId)
    /\ ~bothResolve(last.propertySymbol, last.mixtureId)

(***************************************************************************)
(* C26                                                                     *)
(***************************************************************************)
\* the matrix has one row per component of the mixture, rows of one length,
\* and a cell for every ordered pair of row indices
dense(m, p) ==
    LET matrix == mixturePropertyMatrices[m][p]
    IN  /\ Cardinality(DOMAIN matrix) = Len(matrixData[m].components)
        /\ \A r1 \in DOMAIN matrix, r2 \in DOMAIN matrix : Len(matrix[r1]) = Len(matrix[r2])
        /\ \A r \in DOMAIN matrix, c \in DOMAIN matrix : c + 1 \in DOMAIN matrix[r]

\* references p_i_j with i, j in 1..2
pairReferences ==
    {sym(Prefixes[p], numToString(i), numToString(j)) :
        p \in 1..Len(Prefixes), i \in 1..2, j \in 1..2}

\* C26: after a successful construction every property matrix of every
\* mixture is dense (one row per component, all rows of the same length, a
\* defined number for every ordered pair of component indices), so that
\* ij(p_i_j, m) for i, j in 1..2 never yields an undefined value.
C26_MatricesDense ==
    /\ pc \in {"ready", "called"} =>
          \A m \in DOMAIN mixturePropertyMatrices :
              \A p \in DOMAIN mixturePropertyMatrices[m] : dense(m, p)
    /\ (pc = "called" /\ last.op = "ij" /\ last.propertySymbol \in pairReferences
            /\ ~last.threw) => last.value.def

(***************************************************************************)
(* C27                                                                     *)
(***************************************************************************)
\* the prefixes props lists for mixture m
listedPrefixes(m) == {matrixData[m].props[k].symbol : k \in 1..Len(matrixData[m].props)}

\* C27: props of a mixture contains the prefix of every coefficient row found
\* in any row group of the mixture (the rows of both components), not only
\* the prefixes found in one of the row groups.
C27_PropsCoverEveryGroup ==
    pc \in {"ready", "called"} =>
        \A m \in DOMAIN matrixData :
            UNION {prefixesOfGroup(groupsOf(m)[n]) : n \in 1..Len(groupsOf(m))}
                \subseteq listedPrefixes(m)

(***************************************************************************)
(* C23                                                                     *)
(***************************************************************************)
\* the reference contains none of the candidate delimiters
withoutDelimiter(propertySymbol, propertyDelimiters) ==
    \A k \in 1..Len(propertyDelimiters) : ~includes(propertySymbol, propertyDelimiters[k])

\* C23: propertyParser returns a result for every input string; for an input
\* that contains none of the candidate delimiters the result has
\* propertyPrefix equal to the trimmed input, i and j equal to the empty
\* string, and mode "component".
C23_ParserTotal ==
    (pc = "parsed" /\ last.op = "propertyParser") =>
        /\ DOMAIN last.res = {"propertyPrefix", "propertyDelimiter", "i", "j", "mode"}
        /\ last.res.mode \in {"numeric", "component"}
        /\ withoutDelimiter(last.propertySymbol, last.propertyDelimiters) =>
              /\ last.res.propertyPrefix = trim(last.propertySymbol)
              /\ last.res.i = <<>>
              /\ last.res.j = <<>>
              /\ last.res.mode = "component"

\* a reference without delimiter, written with blanks around it, has been
\* parsed
C23_Witness ==
    /\ pc = "parsed"
    /\ last.op = "propertyParser"
    /\ withoutDelimiter(last.propertySymbol, last.propertyDelimiters)
    /\ last.propertySymbol = <<" ", "a", "1", " ">>
    /\ last.res.propertyPrefix = <<"a", "1">>

(***************************************************************************)
(* C24                                                                     *)
(***************************************************************************)
\* the placeholder is written as a number: a numeral, or Infinity
parsesAsNumber(token) ==
    \/ token # <<>> /\ \A k \in 1..Len(token) : isDigit(token[k])
    \/ token = sInfinity

\* C24: with the default delimiters ["|", "_"], "p_x_y" yields prefix p,
\* i = x, j = y and delimiter "_"; "p | c1 | c2" yields prefix p with empty i
\* and j; "p_x_y | c1 | c2" yields prefix p, i = x and j = y from the first
\* segment; and mode is "numeric" exactly when i and j are both non-empty and
\* both parse as numbers.
C24_ThreeSurfaceForms ==
    (pc = "parsed" /\ last.op = "propertyParser"
        /\ last.propertyDelimiters = PropertyDelimiters) =>
        /\ \A p \in ParserPrefixes, x \in ParserTokens, y \in ParserTokens :
              /\ last.propertySymbol = sym(p, x, y) =>
                    /\ last.res.propertyPrefix = p
                    /\ last.res.i = x
                    /\ last.res.j = y
                    /\ last.res.propertyDelimiter = <<"_">>
              /\ last.propertySymbol = piped(p, cA.name, cB.name) =>
                    /\ last.res.propertyPrefix = p
                    /\ last.res.i = <<>>
                    /\ last.res.j = <<>>
              /\ last.propertySymbol = piped(sym(p, x, y), cA.name, cB.name) =>
                    /\ last.res.propertyPrefix = p
                    /\ last.res.i = x
                    /\ last.res.j = y
        /\ last.res.mode = "numeric" <=>
              /\ last.res.i # <<>>
              /\ last.res.j # <<>>
              /\ parsesAsNumber(last.res.i)
              /\ parsesAsNumber(last.res.j)

\* the mixed form with two numerals has been parsed in numeric mode
C24_Witness ==
    /\ pc = "parsed"
    /\ last.op = "propertyParser"
    /\ last.propertyDelimiters = PropertyDelimiters
    /\ last.propertySymbol = piped(sym(<<"a">>, <<"1">>, <<"2","0">>), cA.name, cB.name)
    /\ last.res.mode = "numeric"
    /\ last.res.j = <<"2","0">>

(***************************************************************************)
(* C25                                                                     *)
(***************************************************************************)
\* the forward and the reverse id of the pair under one key template and one
\* delimiter, in lower case
pairIds(components, key, delimiter) ==
    {toLowerCase(set_component_id(components[a], key) \o delimiter
                 \o set_component_id(components[3 - a], key)) : a \in 1..2}

\* the row groups of raw whose Mixture label is one of these ids, whatever
\* the letter case
matchedGroups(raw, components, key, delimiter) ==
    {g \in 1..Len(raw) :
        \E k \in 1..Len(raw[g]) :
            /\ toLowerCase(raw[g][k].name) = sMixture
            /\ toLowerCase(StringOf(raw[g][k].value)) \in pairIds(components, key, delimiter)}

\* the place of a combination in key-major order
keyMajor(k, d) == (k - 1) * Len(MixtureDelimiters) + d

\* the combinations (key number, delimiter number) that match exactly two row
\* groups of raw
binaryCombinations(raw, components, keys) ==
    {c \in (1..Len(keys)) \X (1..Len(MixtureDelimiters)) :
        Cardinality(matchedGroups(raw, components, keys[c[1]], MixtureDelimiters[c[2]])) = 2}

\* the first of them in key-major order
firstCombination(raw, components, keys) ==
    CHOOSE c \in binaryCombinations(raw, components, keys) :
        \A d \in binaryCombinations(raw, components, keys) :
            keyMajor(c[1], c[2]) <= keyMajor(d[1], d[2])

\* the two row groups the first combination matches, in data order
firstMatch(raw, components, keys) ==
    LET c == firstCombination(raw, components, keys)
    IN  matchedGroups(raw, components, keys[c[1]], MixtureDelimiters[c[2]])

\* C25: extractBinaryMixtureData tries the (key template, delimiter)
\* combinations in key-major order and returns the row groups of the first
\* combination whose forward or reverse id matches, in any letter case, the
\* Mixture label of exactly two row groups; the returned records number
\* exactly two, and when no combination matches exactly two row groups it
\* throws.
C25_FirstCombinationWithTwoGroups ==
    (pc = "extracted" /\ last.op = "extractBinaryMixtureData" /\ Len(last.components) = 2) =>
        IF binaryCombinations(last.before, last.components, last.keys) = {}
        THEN last.threw
        ELSE /\ ~last.threw
             /\ Len(last.records) = 2
             /\ \E lo, hi \in firstMatch(last.before, last.components, last.keys) :
                   /\ lo < hi
                   /\ last.records = <<data[lo], data[hi]>>

\* a call that returned two row groups although an earlier combination
\* matched one or three row groups, and another combination would have
\* matched two other row groups
C25_Witness ==
    /\ pc = "extracted"
    /\ last.op = "extractBinaryMixtureData"
    /\ ~last.threw
    /\ Len(last.records) = 2
    /\ \E c \in binaryCombinations(last.before, last.components, last.keys) :
          \E k \in 1..Len(last.keys), d \in 1..Len(MixtureDelimiters) :
              /\ keyMajor(k, d) < keyMajor(c[1], c[2])
              /\ Cardinality(matchedGroups(last.before, last.components, last.keys[k],
                                           MixtureDelimiters[d])) \in {1, 3}

(***************************************************************************)
(* C30                                                                     *)
(***************************************************************************)
\* the label with its tokens trimmed and joined by "|"
normalizedLabel(label) ==
    LET tokens == split(label, <<"|">>)
    IN  join([k \in 1..Len(tokens) |-> trim(tokens[k])], <<"|">>)

\* group after differs from group before in nothing but the value of its
\* Mixture row, which is the id
relabelledTo(after, before, id) ==
    /\ Len(after) = Len(before)
    /\ \A k \in 1..Len(before) :
          IF toLowerCase(before[k].name) = sMixture
          THEN after[k] = [before[k] EXCEPT !.value = StrV(id)]
          ELSE after[k] = before[k]

\* the first call changed nothing but the Mixture rows of the row groups it
\* returned, and nothing at all when it threw
onlyLabelsRewritten ==
    IF last.threw THEN data = last.before
    ELSE /\ Len(data) = Len(last.before)
         /\ \E lo, hi \in 1..Len(data) :
               /\ lo < hi
               /\ last.records = <<data[lo], data[hi]>>
               /\ last.mixtureId = normalizedLabel(rowValue(last.before[lo], sMixture))
               /\ \A g \in 1..Len(data) :
                     IF g \in {lo, hi}
                     THEN relabelledTo(data[g], last.before[g], last.mixtureId)
                     ELSE data[g] = last.before[g]

\* C30: extractBinaryMixtureData changes the caller's data only by rewriting
\* the value of the Mixture row of the two matched row groups to the
\* normalized mixture id (tokens trimmed, joined by "|"); every other row and
\* every unmatched row group is left unchanged, a call that throws changes
\* nothing, and a second call with the same components on the same data
\* returns the same two row groups and the same mixtureId as the first.
C30_OnlyLabelsRewrittenAndRepeatable ==
    /\ (pc = "extracted" /\ last.op = "extractBinaryMixtureData") => onlyLabelsRewritten
    /\ (pc = "extractedAgain" /\ ~last.first.threw) =>
          /\ ~last.threw
          /\ last.records = last.first.records
          /\ last.mixtureId = last.first.mixtureId

\* the frame of the first call alone
C30_FirstCallFrame ==
    (pc = "extracted" /\ last.op = "extractBinaryMixtureData") => onlyLabelsRewritten

(***************************************************************************)
(* C28                                                                     *)
(***************************************************************************)
\* C28: MoziData keeps its cleaned view consistent with its raw records:
\* after construction and after any sequence of addRecord, addRecords,
\* removeRecordBySymbol, updateRecordBySymbol and clearData, getData() equals
\* cleanRawThermoRecord(getRawData()); a value set by updateRecordBySymbol is
\* still returned by getDataBySymbol after a later addRecord or addRecords;
\* and a failed updateRecordBySymbol leaves both lists unchanged.
C28_CleanedViewConsistent ==
    /\ data = cleanRawThermoRecord(rawThermoRecord)
    /\ (last.op \in {"addRecord", "addRecords"} /\ last.updated # <<>>) =>
          /\ ~getDataBySymbol(data, last.updated[1].symbol).threw
          /\ getDataBySymbol(data, last.updated[1].symbol).value = NumV(last.updated[1].value)
    /\ (last.op = "updateRecordBySymbol" /\ last.threw) =>
          /\ rawThermoRecord = last.before.rawThermoRecord
          /\ data = last.before.data

(***************************************************************************)
(* C29                                                                     *)
(***************************************************************************)
\* the parameter values one configure call on the records gives: for each
\* declared parameter the value of the first record of its symbol, scaled
\* once when a scale is declared
configuredOnce(configParams, records) ==
    [key \in {configParams[n].key : n \in 1..Len(configParams)} |->
        LET value == configParams[CHOOSE n \in 1..Len(configParams) : configParams[n].key = key]
        IN  records[findBySymbol(records, value.symbol)].value.n
                * (IF value.scale # 0 THEN value.scale ELSE 1)]

\* C29: MoziEquation.configure(data) does not modify its input, the records
\* of data have the same values after the call as before, and configuring
\* twice with the same data array, on the same or on another equation that
\* declares a scale for a parameter, yields the same parameter values as
\* configuring once.
C29_ConfigureIdempotent ==
    last.op = "configure" =>
        /\ data = last.before
        /\ ~last.threw =>
              /\ DOMAIN params = DOMAIN configuredOnce(last.configParams, last.original)
              /\ \A key \in DOMAIN params :
                    params[key].value = configuredOnce(last.configParams, last.original)[key]

(***************************************************************************)
(* C21                                                                     *)
(***************************************************************************)
\* the identity of a row group under a key, read off its rows one part of
\* the key at a time; <<>> stands for a row group that lacks a part
identityOf(group, key) ==
    LET valueOf(part) ==
            {StringOf(group[k].value) : k \in {k \in 1..Len(group) :
                /\ toLowerCase(group[k].name) = part \/ toLowerCase(group[k].symbol) = part
                /\ \A h \in 1..(k - 1) :
                      toLowerCase(group[h].name) # part /\ toLowerCase(group[h].symbol) # part}}
        name == valueOf(sName)
        second == IF key = "Name-State" THEN valueOf(sState) ELSE valueOf(sFormula)
    IN  IF name = {} \/ second = {} THEN <<>>
        ELSE (CHOOSE x \in name : TRUE) \o <<"-">> \o (CHOOSE x \in second : TRUE)

\* the row groups of the data whose identity is the component's id
matchingGroups(component, key) ==
    {k \in 1..Len(data) : identityOf(data[k], key) = set_component_id(component, key)}

\* some component of the call has no row group
someUnmatched ==
    \E n \in 1..Len(last.components) :
        matchingGroups(last.components[n], last.dataComponentMatchKey) = {}

\* the first row group of every component of the call has a numeric record
\* for every parameter of the equation
parametersPresent ==
    \A n \in 1..Len(last.components) :
        LET groups == matchingGroups(last.components[n], last.dataComponentMatchKey)
            first == CHOOSE k \in groups : \A h \in groups : k <= h
        IN  groups # {} =>
                \A p \in 1..Len(last.configParams) :
                    \E k \in 1..Len(data[first]) :
                        /\ data[first][k].symbol = last.configParams[p].symbol
                        /\ data[first][k].value.t = "num"

\* the result has an entry for every component under every requested key
everyAlias ==
    \A n \in 1..Len(last.components), k \in 1..Len(last.componentKey) :
        set_component_id(last.components[n], last.componentKey[k])
            \in DOMAIN last.componentEquations

====
